---- MODULE Spec2Model ----
(***************************************************************************)
(* A model of slixmpp's XMLStream (src/slixmpp/xmlstream/xmlstream.py):    *)
(* the incremental framer (data_received), stanza dispatch                 *)
(* (__spawn_event / run_event), the custom event bus (event) and the named *)
(* scheduler (schedule, cancel_schedule and the timer callbacks).          *)
(***************************************************************************)
EXTENDS Integers, Sequences, FiniteSets, TLC

(***************************************************************************)
(* Bounds of the model.                                                    *)
(***************************************************************************)
\* bytes received on one connection
MaxWire == 10
\* bytes in one chunk handed to data_received
MaxChunk == 6
\* nesting depth the peer opens
MaxDepth == 3
\* handlers registered at one time
MaxHandlers == 3
\* inbound filters installed at one time
MaxFilters == 2
\* connection_made calls in one behaviour
MaxConnections == 2
\* subscribers of one event name
MaxSubscribers == 2
\* event() calls in one behaviour
MaxEvents == 3
\* threads of threaded subscribers not yet run
MaxThreads == 2
\* timers created in one behaviour
MaxTimers == 3
\* outbound items submitted, bytes per item, starts of the send worker
MaxItems == 3
ItemLen == 2
MaxStarts == 2
\* connection attempts in flight, consecutive failures, aborts
MaxPending == 1
MaxFailures == 2
MaxAborts == 1
MaxPublish == 3
MaxSessionTimers == 4
MaxStanzas == 3
MaxOutFilters == 2
MaxSends == 1

(***************************************************************************)
(* Input alphabets.                                                        *)
(***************************************************************************)
\* local names of the elements the peer sends
Tags == {"msg", "proceed"}

\* A tag of the wire: an opening tag carrying a name, or a closing tag.
RootTag == "stream"

Tokens == [ev : {"start"}, tag : Tags \cup {RootTag}] \cup {[ev |-> "end", tag |-> "-"]}

\* Each tag takes two bytes on the wire, so a chunk boundary can fall inside it.
Bytes == [tok : Tokens, part : {1, 2}]

\* Exception classes a callback may raise; RestartStream derives from Exception.
RestartStream == "RestartStream"
PlainException == "Exception"
NoException == "none"

\* The handler objects the application owns (name, matcher, once, instream and
\* what the callback does when run).
HandlerPool ==
  << [name |-> "A", mask |-> {"msg", "proceed"}, once |-> FALSE, instream |-> FALSE,
      beh |-> "mutate", arg |-> "-"],
     [name |-> "B", mask |-> {"msg"}, once |-> TRUE, instream |-> TRUE,
      beh |-> "raise", arg |-> "-"],
     [name |-> "C", mask |-> {"proceed"}, once |-> TRUE, instream |-> TRUE,
      beh |-> "restart", arg |-> "-"],
     [name |-> "A", mask |-> {"msg"}, once |-> FALSE, instream |-> FALSE,
      beh |-> "remove", arg |-> "B"] >>

HandlerIds == DOMAIN HandlerPool

\* The inbound filter functions the application owns.
FilterPool == << "pass", "mark", "drop" >>

FilterIds == DOMAIN FilterPool

\* The subscriber functions the application owns, and what each does when run.
SubscriberPool == {"cb_ok", "cb_raise"}

SubscriberRaises(ptr) == ptr = "cb_raise"

\* The custom event the application publishes.
UserEvents == {"evt"}

EventNames == UserEvents \cup {"connected", "disconnected", "session_start",
                                 "ssl_expired_cert"}

\* The callbacks the application schedules: what each does when its timer fires.
CallbackPool == {"ok", "raise", "resched", "cancel"}

\* The names the application schedules under.
SchedNames == {"job", "other"}

\* The names the stream schedules under itself.
BuiltinSchedNames == {"Session timeout check", "Whitespace Keepalive",
                      "Certificate Expiration"}

VARIABLES
  transport,      \* self.transport: "none" or "tcp"
  parser,         \* self.parser: the pull parser (open elements, unread events)
  xml_depth,      \* self.xml_depth
  xml_root,       \* self.xml_root: id of the root element, 0 for None
  stream_end,     \* self.stream_end_event
  wire_out,       \* what was written to the current transport
  received,       \* history: the bytes data_received got on this connection
  midTag,         \* history: some chunk of this connection ended inside a tag
  lastCall,       \* history: length of frLog when the latest data_received began
  frLog,          \* history: stream-opened / stanza / stream-ended signals
  connHandlers,   \* history: self.__handlers at connection_made
  nconn,          \* history: number of connection_made calls
  reconnect_delay, \* self.reconnect_delay, 0 for None
  handlers,       \* self.__handlers: sequence of handler ids
  hbound,         \* handlers whose .stream is set
  filters_in,     \* self.__filters['in']
  runCount,       \* history: times each handler's callback was run
  last,           \* history: what the __spawn_event of the step just taken did
  event_handlers, \* self.__event_handlers: name -> sequence of (pointer, threaded, disposable)
  threads,        \* started threads of threaded subscribers, not yet run
  lastEvent,      \* history: what the event() call of the step just taken did
  spent,          \* history: disposable subscriptions already dispatched to
  nevents,        \* history: number of event() calls
  scheduled_events, \* self.scheduled_events: name -> handle, 0 when absent
  timers,         \* the loop's call_later handles, by handle id
  lastFire,       \* history: what the timer firing of the step just taken did
  stop,           \* self.stop, the threading.Event
  session_started, \* self.session_started_event
  disc_calls,     \* history: the disconnect() calls made, with their arguments
  send_queue,     \* self.send_queue
  failed_send_stanza, \* self.__failed_send_stanza, 0 for None
  worker,         \* _send_thread: where it is, its data, sent and tries
  sock_out,       \* history: the byte ranges handed to the socket, in order
  socket_errors,  \* history: number of socket_error events published
  lastFail,       \* history: the write failure of the step just taken
  nsub,           \* history: outbound items submitted so far
  nstarts,        \* history: starts of the send worker
  conn_state,     \* self.state, the StateMachine's current state
  pending,        \* create_connection routines handed to the loop, not yet settled
  use_ssl,        \* self.use_ssl
  address,        \* self.address, the host part
  dns_answers,    \* self.dns_answers: gen says it is the resolver's iterator
  tls_pending,    \* the create_connection routine of start_tls is under way
  wait_for_threads, \* self._disconnect_wait_for_threads
  killed,         \* history: number of 'killed' events published
  failures,       \* history: failed attempts since the last stream header
  lastOp,         \* history: the lifecycle call of the step just taken
  cert,           \* self._der_cert and its time to live: "none", "no_ttl", "valid", "expired"
  signalled,      \* history: session_started was set since the latest 'connected'
  reactions,      \* history: session timeouts and certificate reactions, in order
  npub,           \* history: number of lifecycle events published
  root_stanza,    \* self.__root_stanza: the registered root stanza classes
  default_ns,     \* self.default_ns
  lastBuild,      \* history: the _build_stanza call of the step just taken
  filters_out,    \* self.__filters['out']
  filters_sync,   \* self.__filters['out_sync']
  lastSend,       \* history: the send call of the step just taken
  lastAdd,        \* history: the add_filter call of the step just taken
  whitespace_keepalive \* self.whitespace_keepalive

framerVars == << transport, parser, xml_depth, xml_root, stream_end, wire_out,
                 received, midTag, lastCall, frLog, connHandlers, nconn, reconnect_delay >>
\* framerVars without wire_out
readVars == << transport, parser, xml_depth, xml_root, stream_end,
               received, midTag, lastCall, frLog, connHandlers, nconn, reconnect_delay >>
dispatchVars == << handlers, hbound, filters_in, runCount, last >>
eventVars == << event_handlers, threads, lastEvent, spent, nevents >>
schedVars == << scheduled_events, timers, lastFire >>
lifeVars == << stop, session_started, disc_calls >>
sendVars == << send_queue, failed_send_stanza, worker, sock_out, socket_errors,
              lastFail, nsub, nstarts >>
connVars == << conn_state, pending, use_ssl, address, dns_answers, tls_pending,
              wait_for_threads, killed, failures, lastOp >>
sessVars == << cert, signalled, reactions, npub >>
stanzaVars == << root_stanza, default_ns, lastBuild >>
\* the groups the connection, the worker and the timers leave alone
outVars == << filters_out, filters_sync, lastSend, lastAdd >>
restVars == << stanzaVars, outVars, whitespace_keepalive >>
vars == << framerVars, dispatchVars, eventVars, schedVars, lifeVars, sendVars, connVars,
          sessVars, restVars >>

(***************************************************************************)
(* The pull parser (xml.etree.ElementTree.XMLPullParser(("start","end"))). *)
(***************************************************************************)
NoParser == [live |-> FALSE, stack |-> <<>>, events |-> <<>>, nextId |-> 1]

NewParser == [live |-> TRUE, stack |-> <<>>, events |-> <<>>, nextId |-> 1]

\* One byte fed: a tag is recognised when its last byte arrives.
ParserFeedByte(p, b) ==
  IF b.part = 1 THEN p
  ELSE IF b.tok.ev = "start"
       THEN LET el == [id |-> p.nextId, tag |-> b.tok.tag]
            IN [p EXCEPT !.stack = Append(@, el),
                         !.events = Append(@, [ev |-> "start", el |-> el]),
                         !.nextId = @ + 1]
       ELSE LET el == p.stack[Len(p.stack)]
            IN [p EXCEPT !.stack = SubSeq(@, 1, Len(@) - 1),
                         !.events = Append(@, [ev |-> "end", el |-> el])]

RECURSIVE ParserFeed(_, _)
ParserFeed(p, chunk) ==
  IF chunk = <<>> THEN p
  ELSE ParserFeed(ParserFeedByte(p, Head(chunk)), Tail(chunk))

(***************************************************************************)
(* The peer: byte streams that are prefixes of a well-formed document.     *)
(***************************************************************************)
CompleteTokens(bytes) == SelectSeq(bytes, LAMBDA b : b.part = 2)

PeerDepth(bytes) ==
  Len(SelectSeq(CompleteTokens(bytes), LAMBDA b : b.tok.ev = "start"))
    - Len(SelectSeq(CompleteTokens(bytes), LAMBDA b : b.tok.ev = "end"))

AllowedTokens(bytes) ==
  LET d == PeerDepth(bytes)
      starts == {t \in Tokens : t.ev = "start" /\ t.tag \in Tags}
      ends == {t \in Tokens : t.ev = "end"}
  IN IF d = 0
     THEN IF CompleteTokens(bytes) = <<>> THEN {[ev |-> "start", tag |-> RootTag]} ELSE {}
     ELSE (IF d < MaxDepth THEN starts ELSE {}) \cup ends

NextBytes(bytes) ==
  IF bytes /= <<>> /\ bytes[Len(bytes)].part = 1
  THEN {[tok |-> bytes[Len(bytes)].tok, part |-> 2]}
  ELSE {[tok |-> t, part |-> 1] : t \in AllowedTokens(bytes)}

RECURSIVE Conts(_, _)
Conts(bytes, n) ==
  IF n = 0 THEN {<<>>}
  ELSE UNION {{<<b>> \o c : c \in Conts(Append(bytes, b), n - 1)} : b \in NextBytes(bytes)}

(***************************************************************************)
(* Handlers, filters and stanza objects.                                   *)
(***************************************************************************)
\* handler.match(stanza)
Match(h, tag) == tag \in HandlerPool[h].mask

\* handler.check_delete(): true for a handler registered with once
CheckDelete(h) == HandlerPool[h].once

\* list.remove(x): the first occurrence goes; a missing x raises ValueError,
\* which both callers swallow
RECURSIVE ListRemove(_, _)
ListRemove(seq, x) ==
  IF seq = <<>> THEN <<>>
  ELSE IF Head(seq) = x THEN Tail(seq)
  ELSE <<Head(seq)>> \o ListRemove(Tail(seq), x)

\* list.insert(i, x) for i >= 0
ListInsert(seq, i, x) ==
  IF i >= Len(seq) THEN Append(seq, x)
  ELSE SubSeq(seq, 1, i) \o <<x>> \o SubSeq(seq, i + 1, Len(seq))

\* remove_handler(name): pops the first handler carrying the name
RECURSIVE RemoveHandlerOp(_, _)
RemoveHandlerOp(hs, name) ==
  IF hs = <<>> THEN <<>>
  ELSE IF HandlerPool[Head(hs)].name = name THEN Tail(hs)
  ELSE <<Head(hs)>> \o RemoveHandlerOp(Tail(hs), name)

\* copy.copy(stanza): a new object holding the same content
StanzaCopy(heap, ref) == Append(heap, heap[ref])

\* One inbound filter applied to the stanza object ref (0 is None).
ApplyFilter(f, heap, ref) ==
  IF FilterPool[f] = "drop" THEN [heap |-> heap, ref |-> 0]
  ELSE IF FilterPool[f] = "mark"
       THEN [heap |-> [heap EXCEPT ![ref] = "filtered"], ref |-> ref]
       ELSE [heap |-> heap, ref |-> ref]

\* for filter in self.__filters['in']: if stanza is not None: stanza = filter(stanza)
RECURSIVE ApplyFilters(_, _, _, _)
ApplyFilters(fs, heap, ref, applied) ==
  IF fs = <<>> THEN [heap |-> heap, ref |-> ref, applied |-> applied]
  ELSE IF ref /= 0
       THEN LET r == ApplyFilter(Head(fs), heap, ref)
            IN ApplyFilters(Tail(fs), r.heap, r.ref, Append(applied, Head(fs)))
       ELSE ApplyFilters(Tail(fs), heap, ref, applied)

\* Variant: a run_event whose except clause lets RestartStream through.
RunEventCatchesNoRestart(exc) == exc = PlainException

\* The classes `except Exception` of run_event catches.
RunEventCatches(exc) == exc \in {PlainException, RestartStream}

\* What the callback of handler h raises when run.
Raises(h) ==
  IF HandlerPool[h].beh = "raise" THEN PlainException
  ELSE IF HandlerPool[h].beh = "restart" THEN RestartStream
  ELSE NoException

\* handler.run(args[0]) inside run_event: the callback works on the object ref
HandlerRan(d, h, ref) ==
  [d EXCEPT
     !.runs = Append(@, [h |-> h, ref |-> ref, seen |-> d.heap[ref]]),
     !.runCount[h] = @ + 1,
     !.heap[ref] = IF HandlerPool[h].beh = "mutate" THEN "mutated" ELSE @,
     !.handlers = IF HandlerPool[h].beh = "remove"
                  THEN RemoveHandlerOp(@, HandlerPool[h].arg) ELSE @]

\* except Exception as e: ... orig.exception(e)
\* What run_event does not catch leaves __spawn_event.
HandlerRaised(d, h, exc) ==
  IF exc = NoException THEN d
  ELSE IF RunEventCatches(exc)
       THEN [d EXCEPT !.reports = Append(@, [h |-> h, exc |-> exc, hook |-> "stanza"])]
       ELSE [d EXCEPT !.escape = exc]

\* run_event(('stanza', handler, stanza_copy))
RunStanzaEvent(d, h, ref) == HandlerRaised(HandlerRan(d, h, ref), h, Raises(h))

\* Variant: every matched handler is handed the one stanza object.
HandlerPayloadShared(n, stanza, copy) == stanza

\* The object a matched handler is given when n handlers matched.
HandlerPayload(n, stanza, copy) == IF n > 1 THEN copy ELSE stanza

\* stanza_copy = copy.copy(stanza) when more than one handler matched
WithCopy(d, n, stanza) ==
  IF n > 1 THEN [d EXCEPT !.heap = StanzaCopy(@, stanza)] ELSE d

\* Variant: the loop never removes a handler.
DeleteCheckedKeeps(hs, h) == hs

\* if handler.check_delete(): self.__handlers.remove(handler)
DeleteChecked(hs, h) == IF CheckDelete(h) THEN ListRemove(hs, h) ELSE hs

\* One turn of the loop over matched_handlers, up to run_event.
RunMatched(d, matched, i, stanza) ==
  RunStanzaEvent(WithCopy(d, Len(matched), stanza), matched[i],
                 HandlerPayload(Len(matched), stanza, Len(d.heap) + 1))

\* for handler in matched_handlers: ...
RECURSIVE HandlerLoop(_, _, _, _)
AfterRun(d, matched, i, stanza) ==
  IF d.escape /= NoException THEN d
  ELSE HandlerLoop([d EXCEPT !.handlers = DeleteChecked(@, matched[i]),
                             !.unhandled = FALSE],
                   matched, i + 1, stanza)

HandlerLoop(d, matched, i, stanza) ==
  IF i > Len(matched) THEN d
  ELSE AfterRun(RunMatched(d, matched, i, stanza), matched, i, stanza)

NoDispatch ==
  [valid |-> FALSE, el |-> 0, tag |-> "-", filters |-> <<>>, applied |-> <<>>,
   dropped |-> FALSE, before |-> <<>>, matched |-> <<>>, runs |-> <<>>,
   reports |-> <<>>, heap |-> <<>>, content |-> "-", unhandledCalls |-> 0,
   escape |-> NoException]

\* Variant: the loop starts with unhandled = False.
LoopStartHandled(hs, rc, heap) ==
  [handlers |-> hs, runCount |-> rc, heap |-> heap, runs |-> <<>>,
   reports |-> <<>>, escape |-> NoException, unhandled |-> FALSE]

\* The state the loop over matched_handlers starts in: unhandled = True.
LoopStart(hs, rc, heap) ==
  [handlers |-> hs, runCount |-> rc, heap |-> heap, runs |-> <<>>,
   reports |-> <<>>, escape |-> NoException, unhandled |-> TRUE]

\* if stanza is None: return; else match and run the handlers
MatchAndRun(hs, rc, f, matched) ==
  IF f.ref = 0 THEN LoopStart(hs, rc, f.heap)
  ELSE HandlerLoop(LoopStart(hs, rc, f.heap), matched, 1, f.ref)

\* Variant: no return when the filters left None.
UnhandledCallsOnNone(f, d) ==
  IF d.escape = NoException /\ d.unhandled THEN 1 ELSE 0

\* if unhandled: stanza.unhandled()
UnhandledCalls(f, d) ==
  IF f.ref /= 0 /\ d.escape = NoException /\ d.unhandled THEN 1 ELSE 0

SpawnResult(hs, fs, el, f, matched, d) ==
  [handlers |-> d.handlers,
   runCount |-> d.runCount,
   escape |-> d.escape,
   last |-> [valid |-> TRUE, el |-> el.id, tag |-> el.tag, filters |-> fs,
             applied |-> f.applied, dropped |-> (f.ref = 0), before |-> hs,
             matched |-> IF f.ref = 0 THEN <<>> ELSE matched,
             runs |-> d.runs, reports |-> d.reports, heap |-> d.heap,
             content |-> IF f.ref = 0 THEN "-" ELSE f.heap[f.ref],
             unhandledCalls |-> UnhandledCalls(f, d),
             escape |-> d.escape]]

\* matched_handlers = [h for h in self.__handlers if h.match(stanza)]
MatchedHandlers(hs, tag) == SelectSeq(hs, LAMBDA h : Match(h, tag))

SpawnMatched(hs, fs, rc, el, f, matched) ==
  SpawnResult(hs, fs, el, f, matched, MatchAndRun(hs, rc, f, matched))

SpawnFiltered(hs, fs, rc, el, f) ==
  SpawnMatched(hs, fs, rc, el, f, MatchedHandlers(hs, el.tag))

\* __spawn_event(xml) on the handler list hs and the inbound chain fs.
\* Object 1 of the heap is the stanza _build_stanza made.
SpawnEvent(hs, fs, rc, el) ==
  SpawnFiltered(hs, fs, rc, el, ApplyFilters(fs, << "orig" >>, 1, <<>>))

(***************************************************************************)
(* The framer: data_received.                                              *)
(***************************************************************************)
\* Variant: every closed element below the root is dispatched.
IsStanzaDepthAnyChild(depth) == depth >= 1

\* elif self.xml_depth == 1: the closed element is a direct child of the root
IsStanzaDepth(depth) == depth = 1

\* if self.xml_depth == 0: the start of the root element
RootOpened(st, el) ==
  [st EXCEPT !.xml_root = el.id,
             !.stream_end = FALSE,
             !.reconnect_delay = 1,
             !.frLog = Append(@, [sig |-> "opened", el |-> el.id, tag |-> el.tag])]

\* event == 'start'
StartEvent(st, el) ==
  [(IF st.xml_depth = 0 THEN RootOpened(st, el) ELSE st) EXCEPT !.xml_depth = @ + 1]

\* The root element has closed: stream_end_event.set(), return False
RootClosed(st, el) ==
  [st EXCEPT !.stream_end = TRUE,
             !.frLog = Append(@, [sig |-> "ended", el |-> el.id, tag |-> el.tag])]

\* self.__spawn_event(xml) on the stream state; escape is what it raised
Spawned(st, el, r) ==
  [st EXCEPT !.handlers = r.handlers,
             !.runCount = r.runCount,
             !.last = r.last,
             !.escape = r.escape,
             !.frLog = Append(@, [sig |-> "stanza", el |-> el.id, tag |-> el.tag])]

SpawnInStream(st, el) ==
  Spawned(st, el, SpawnEvent(st.handlers, st.filters_in, st.runCount, el))

\* for event, xml in self.parser.read_events(): ...
\* The loop ends when the queue is empty, when the root closes (return
\* False) and when __spawn_event raises (RestartStream: return True).
RECURSIVE ReadEvents(_)
AfterSpawn(st) ==
  IF st.escape /= NoException THEN st ELSE ReadEvents(st)

EndEvent(st, el) ==
  IF st.xml_depth = 0 THEN RootClosed(st, el)
  ELSE IF IsStanzaDepth(st.xml_depth) THEN AfterSpawn(SpawnInStream(st, el))
  ELSE ReadEvents(st)

OneEvent(st, e) ==
  IF e.ev = "start" THEN ReadEvents(StartEvent(st, e.el))
  ELSE EndEvent([st EXCEPT !.xml_depth = @ - 1], e.el)

ReadEvents(st) ==
  IF st.parser.events = <<>> THEN st
  ELSE OneEvent([st EXCEPT !.parser.events = Tail(@)], Head(st.parser.events))

\* data_received(data) on the stream state st
DataReceivedOp(st, chunk) ==
  ReadEvents([st EXCEPT !.parser = ParserFeed(@, chunk)])

\* The fields of the stream data_received reads and writes.
StreamState ==
  [parser |-> parser, xml_depth |-> xml_depth, xml_root |-> xml_root,
   stream_end |-> stream_end, reconnect_delay |-> reconnect_delay, frLog |-> frLog,
   handlers |-> handlers, filters_in |-> filters_in, runCount |-> runCount,
   last |-> last, escape |-> NoException]


(***************************************************************************)
(* The event bus: add_event_handler, del_event_handler, event, run_event.  *)
(***************************************************************************)
\* __init__ creates no __event_handlers_lock: the attribute event() names at
\* line 897 does not exist on the object.
HasEventHandlersLock == FALSE

\* The table __init__ leaves: its own four subscriptions.
Sub(ptr, threaded, disposable) ==
  [ptr |-> ptr, threaded |-> threaded, disposable |-> disposable]

InitEventHandlers ==
  [n \in EventNames |->
     IF n = "connected" THEN << Sub("_session_timeout_check", FALSE, FALSE) >>
     ELSE IF n = "disconnected" THEN << Sub("_remove_schedules", FALSE, FALSE) >>
     ELSE IF n = "session_start"
          THEN << Sub("_start_keepalive", FALSE, FALSE), Sub("_cert_expiration", FALSE, FALSE) >>
          ELSE <<>>]

\* The hook a subscriber's exception is handed to: the payload's own
\* exception attribute when it has one, else XMLStream.exception.
ReportHook(hasHook) == IF hasHook THEN "payload" ELSE "stream"

\* h_index = self.__event_handlers[name].index(handler); pop(h_index)
PopFirst(lst, sub) == ListRemove(lst, sub)

\* One subscriber dispatched: called at once (direct, or run_event of a
\* subscriber that is not threaded), or handed to a new thread.
DispatchSub(acc, sub, direct, hasHook) ==
  IF direct \/ ~sub.threaded
  THEN [acc EXCEPT
          !.dispatched = Append(@, sub),
          !.invoked = Append(@, sub),
          !.reports = IF SubscriberRaises(sub.ptr)
                      THEN Append(@, [ptr |-> sub.ptr, hook |-> ReportHook(hasHook)])
                      ELSE @]
  ELSE [acc EXCEPT !.dispatched = Append(@, sub),
                   !.started = Append(@, [ptr |-> sub.ptr, hasHook |-> hasHook])]

\* for handler in handlers: ... over the live list lst, from position i on
RECURSIVE EventLoop(_, _, _, _, _)
AfterDispatch(lst, i, direct, hasHook, acc) ==
  IF lst[i].disposable
  THEN IF HasEventHandlersLock
       THEN EventLoop(PopFirst(lst, lst[i]), i + 1, direct, hasHook, acc)
       ELSE [acc EXCEPT !.lst = lst, !.error = "AttributeError"]
  ELSE EventLoop(lst, i + 1, direct, hasHook, acc)

EventLoop(lst, i, direct, hasHook, acc) ==
  IF i > Len(lst) THEN [acc EXCEPT !.lst = lst]
  ELSE AfterDispatch(lst, i, direct, hasHook, DispatchSub(acc, lst[i], direct, hasHook))

\* event(name, data, direct) on the subscriber list of name
EventOp(lst, direct, hasHook) ==
  EventLoop(lst, 1, direct, hasHook,
            [lst |-> lst, dispatched |-> <<>>, invoked |-> <<>>, reports |-> <<>>,
             started |-> <<>>, error |-> "none"])

NoEvent ==
  [valid |-> FALSE, name |-> "-", direct |-> FALSE, hasHook |-> FALSE, before |-> <<>>,
   after |-> <<>>, dispatched |-> <<>>, invoked |-> <<>>, reports |-> <<>>,
   started |-> <<>>, error |-> "none", again |-> FALSE, overtaken |-> 0]

SeqRange(seq) == {seq[i] : i \in DOMAIN seq}

InitEvents ==
  /\ event_handlers = InitEventHandlers
  /\ threads = <<>>
  /\ lastEvent = NoEvent
  /\ spent = {}
  /\ nevents = 0

\* add_event_handler(name, pointer, threaded, disposable)
AddEventHandler(name, ptr, threaded, disposable) ==
  /\ Len(event_handlers[name]) < MaxSubscribers
  /\ event_handlers' = [event_handlers EXCEPT ![name] = Append(@, Sub(ptr, threaded, disposable))]
  /\ spent' = spent \ {Sub(ptr, threaded, disposable)}
  /\ lastEvent' = NoEvent
  /\ UNCHANGED << threads, nevents >>

\* del_event_handler(name, pointer): keeps the subscriptions of other functions
DelEventHandler(name, ptr) ==
  /\ \E i \in DOMAIN event_handlers[name] : event_handlers[name][i].ptr = ptr
  /\ event_handlers' = [event_handlers EXCEPT
                          ![name] = SelectSeq(@, LAMBDA sub : sub.ptr /= ptr)]
  /\ spent' = {sub \in spent : sub.ptr /= ptr}
  /\ lastEvent' = NoEvent
  /\ UNCHANGED << threads, nevents >>

\* The threads one event() call starts, each noted with the name and the
\* ordinal of the call (history: a Thread object carries func and args).
StartedBy(started, name, ev) ==
  [i \in DOMAIN started |->
     [ptr |-> started[i].ptr, hasHook |-> started[i].hasHook, name |-> name, ev |-> ev]]

\* The threads before position k that an earlier event() call of the same
\* name started for the same function and that have not run yet.
Overtaken(ths, k) ==
  {j \in 1..(k - 1) : /\ ths[j].ptr = ths[k].ptr
                      /\ ths[j].name = ths[k].name
                      /\ ths[j].ev < ths[k].ev}

EventBecomes(name, direct, hasHook, r) ==
  /\ Len(threads) + Len(r.started) <= MaxThreads
  /\ event_handlers' = [event_handlers EXCEPT ![name] = r.lst]
  /\ threads' = threads \o StartedBy(r.started, name, nevents + 1)
  /\ spent' = spent \cup {sub \in SeqRange(r.dispatched) : sub.disposable}
  /\ lastEvent' = [valid |-> TRUE, name |-> name, direct |-> direct, hasHook |-> hasHook,
                   before |-> event_handlers[name], after |-> r.lst,
                   dispatched |-> r.dispatched, invoked |-> r.invoked,
                   reports |-> r.reports, started |-> r.started, error |-> r.error,
                   again |-> (SeqRange(r.dispatched) \cap spent /= {}),
                   overtaken |-> 0]

\* event(name, data, direct) published by the application; hasHook says
\* whether data carries an exception attribute
Event(name, direct, hasHook) ==
  /\ nevents < MaxEvents
  /\ EventBecomes(name, direct, hasHook, EventOp(event_handlers[name], direct, hasHook))
  /\ nevents' = nevents + 1

\* A started thread runs _threaded_event_wrapper(func, args); the threads
\* Thread.start() made run in no order of their own.
ThreadRun(k) ==
  /\ k \in DOMAIN threads
  /\ threads' = SubSeq(threads, 1, k - 1) \o SubSeq(threads, k + 1, Len(threads))
  /\ lastEvent' = [NoEvent EXCEPT
                     !.reports = IF SubscriberRaises(threads[k].ptr)
                                 THEN << [ptr |-> threads[k].ptr,
                                          hook |-> ReportHook(threads[k].hasHook)] >>
                                 ELSE <<>>,
                     !.overtaken = Cardinality(Overtaken(threads, k))]
  /\ UNCHANGED << event_handlers, spent, nevents >>

(***************************************************************************)
(* The scheduler: schedule, cancel_schedule and the timer callbacks.       *)
(***************************************************************************)
InitSched ==
  /\ scheduled_events = [n \in SchedNames \cup BuiltinSchedNames |-> 0]
  /\ timers = <<>>
  /\ lastFire = [valid |-> FALSE, handle |-> 0, error |-> "none"]

\* loop.call_later(...): a new pending handle, numbered in creation order
CallLater(ts, name, cb, repeat) ==
  Append(ts, [name |-> name, cb |-> cb, repeat |-> repeat, st |-> "pending",
              superseded |-> FALSE, fired |-> 0])

\* The pending timer a name's entry points to is marked when the entry is
\* overwritten (history only: the code keeps no such mark).
MarkSuperseded(ts, se, name) ==
  IF se[name] /= 0 /\ ts[se[name]].st = "pending"
  THEN [ts EXCEPT ![se[name]].superseded = TRUE] ELSE ts

\* schedule(name, seconds, callback, repeat=...) on (timers, scheduled_events)
ScheduleOp(sc, name, cb, repeat) ==
  LET ts == CallLater(MarkSuperseded(sc.ts, sc.se, name), name, cb, repeat)
  IN [sc EXCEPT !.ts = ts, !.se[name] = Len(ts)]

\* handle.cancel()
HandleCancel(ts, h) ==
  IF ts[h].st = "pending" THEN [ts EXCEPT ![h].st = "cancelled"] ELSE ts

\* cancel_schedule(name): a missing name is logged and ignored
CancelScheduleOp(sc, name) ==
  IF sc.se[name] = 0 THEN sc
  ELSE [sc EXCEPT !.ts = HandleCancel(@, sc.se[name]), !.se[name] = 0]

\* cb(): the scheduled callback of the pool; it may schedule or cancel the
\* name it runs under, and it may raise
RunCallback(sc, name, cb) ==
  IF cb = "resched" THEN ScheduleOp(sc, name, "ok", FALSE)
  ELSE IF cb = "cancel" THEN CancelScheduleOp(sc, name)
  ELSE IF cb = "raise" THEN [sc EXCEPT !.error = "Exception"]
  ELSE sc

\* _execute_and_unschedule(name, cb): cb(), then del self.scheduled_events[name]
ExecuteAndUnschedule(sc, name, cb) ==
  LET r == RunCallback(sc, name, cb)
  IN IF r.error /= "none" THEN r
     ELSE IF r.se[name] = 0 THEN [r EXCEPT !.error = "KeyError"]
     ELSE [r EXCEPT !.se[name] = 0]

\* _execute_and_reschedule(name, cb, seconds): cb(), then a new call_later
\* whose handle replaces the entry
ExecuteAndReschedule(sc, name, cb) ==
  LET r == RunCallback(sc, name, cb)
  IN IF r.error /= "none" THEN r
     ELSE LET ts == CallLater(r.ts, name, cb, TRUE)
          IN [r EXCEPT !.ts = ts, !.se[name] = Len(ts)]

SchedState == [ts |-> timers, se |-> scheduled_events, error |-> "none"]

\* schedule(name, seconds, callback, repeat=repeat) called by the application
Schedule(name, cb, repeat) ==
  /\ Len(timers) < MaxTimers
  /\ LET r == ScheduleOp(SchedState, name, cb, repeat)
     IN /\ timers' = r.ts
        /\ scheduled_events' = r.se
  /\ lastFire' = [valid |-> FALSE, handle |-> 0, error |-> "none"]

\* cancel_schedule(name) called by the application
CancelSchedule(name) ==
  /\ LET r == CancelScheduleOp(SchedState, name)
     IN /\ timers' = r.ts
        /\ scheduled_events' = r.se
  /\ lastFire' = [valid |-> FALSE, handle |-> 0, error |-> "none"]

\* The loop runs a handle that is due and not cancelled.
TimerFires(h) ==
  /\ h \in DOMAIN timers
  /\ timers[h].st = "pending"
  /\ timers[h].repeat => Len(timers) < MaxTimers
  /\ timers[h].cb = "resched" => Len(timers) < MaxTimers
  /\ LET t == timers[h]
         running == [SchedState EXCEPT !.ts[h].st = "done", !.ts[h].fired = 1]
         r == IF t.repeat THEN ExecuteAndReschedule(running, t.name, t.cb)
              ELSE ExecuteAndUnschedule(running, t.name, t.cb)
     IN /\ timers' = r.ts
        /\ scheduled_events' = r.se
        /\ lastFire' = [valid |-> TRUE, handle |-> h, error |-> r.error]


(***************************************************************************)
(* The outbound path: send_raw and the send worker (_send_thread).         *)
(***************************************************************************)
\* Variant: send_raw writes nothing.
SendRawSilent(out, tr, data) == out

\* send_raw(data): written when there is a transport
SendRaw(out, tr, data) == IF tr = "none" THEN out ELSE Append(out, data)

\* SSL_RETRY_MAX
SSL_RETRY_MAX == 10

\* self.auto_reconnect as __init__ sets it
AutoReconnect == TRUE

InitLife ==
  /\ stop = FALSE
  /\ session_started = FALSE
  /\ disc_calls = <<>>

NoWorker ==
  [pc |-> "none", data |-> 0, sent |-> 0, tries |-> 0, retained |-> 0, gated |-> FALSE]

NoFail == [valid |-> FALSE, item |-> 0, exc |-> "none", fails |-> 0]

InitSend ==
  /\ send_queue = <<>>
  /\ failed_send_stanza = 0
  /\ worker = NoWorker
  /\ sock_out = <<>>
  /\ socket_errors = 0
  /\ lastFail = NoFail
  /\ nsub = 0
  /\ nstarts = 0

\* What socket.send raises: Socket.error with errno EINTR, Socket.error with
\* another errno, and ssl.SSLError for a write the secure channel cannot
\* take yet (its errno is an SSL_ERROR_WANT_ code, none of them EINTR).
SendErrors == {"EINTR", "EPIPE", "SSLWant"}

\* except Socket.error as serr: Socket.error is OSError and ssl.SSLError is a
\* subclass of OSError, so this first clause takes every error socket.send
\* raises and the clause for ssl.SSLError after it is never entered.
CaughtBySocketError(exc) == exc \in {"EINTR", "EPIPE", "SSLWant"}

\* serr.errno != errno.EINTR: raise
IsEINTR(exc) == exc = "EINTR"

\* disconnect(reconnect, wait, send_close): the body is `pass`
DisconnectOp(st, reconnect, wait, send_close) == st

\* A call of disconnect noted in the history of calls.
DisconnectCalled(calls, reconnect, send_close) ==
  Append(calls, [reconnect |-> reconnect, send_close |-> send_close])

\* The state the send worker works on.
SendState ==
  [w |-> worker, out |-> sock_out, failed |-> failed_send_stanza,
   errs |-> socket_errors, discs |-> disc_calls, fail |-> NoFail]

\* sent += self.socket.send(enc_data[sent:]) taking k bytes
SocketSent(ws, k) ==
  [ws EXCEPT !.out = Append(@, [id |-> ws.w.data, lo |-> ws.w.sent + 1,
                                hi |-> ws.w.sent + k]),
             !.w.sent = @ + k]

\* except (Socket.error, ssl.SSLError) as serr: the socket_error event, and
\* when the stream is not stopping the item is retained, the thread ends and
\* disconnect is called
OuterExcept(ws, exc, stopping) ==
  IF stopping
  THEN [ws EXCEPT !.errs = @ + 1, !.w = [NoWorker EXCEPT !.pc = "top"],
                  !.fail = [valid |-> TRUE, item |-> ws.w.data, exc |-> exc,
                            fails |-> ws.w.tries + 1]]
  ELSE [ws EXCEPT !.errs = @ + 1,
                  !.failed = ws.w.data,
                  !.w = [NoWorker EXCEPT !.pc = "ended"],
                  !.discs = DisconnectCalled(@, AutoReconnect, FALSE),
                  !.fail = [valid |-> TRUE, item |-> ws.w.data, exc |-> exc,
                            fails |-> ws.w.tries + 1]]

\* except ssl.SSLError as serr: the retry count, disconnect once it is
\* reached, the sleep, tries += 1; the loop goes on
SslRetry(ws, stopping) ==
  [ws EXCEPT !.discs = IF ws.w.tries >= SSL_RETRY_MAX /\ ~stopping
                       THEN DisconnectCalled(@, AutoReconnect, FALSE) ELSE @,
             !.w.tries = @ + 1]

\* One turn of the inner loop in which socket.send raises exc.
SocketRaised(ws, exc, stopping) ==
  IF CaughtBySocketError(exc)
  THEN IF IsEINTR(exc) THEN ws ELSE OuterExcept(ws, exc, stopping)
  ELSE SslRetry(ws, stopping)

SendBecomes(ws) ==
  /\ worker' = ws.w
  /\ sock_out' = ws.out
  /\ failed_send_stanza' = ws.failed
  /\ socket_errors' = ws.errs
  /\ disc_calls' = ws.discs
  /\ lastFail' = ws.fail

\* _start_thread('send', self._send_thread)
StartSendThread ==
  /\ worker.pc \in {"none", "ended"}
  /\ nstarts < MaxStarts
  /\ worker' = [NoWorker EXCEPT !.pc = "top"]
  /\ nstarts' = nstarts + 1
  /\ lastFail' = NoFail
  /\ UNCHANGED << send_queue, failed_send_stanza, sock_out, socket_errors, nsub, lifeVars >>

\* self.send_queue.put(data)
QueuePut ==
  /\ nsub < MaxItems
  /\ send_queue' = Append(send_queue, nsub + 1)
  /\ nsub' = nsub + 1
  /\ lastFail' = NoFail
  /\ UNCHANGED << failed_send_stanza, worker, sock_out, socket_errors, nstarts, lifeVars >>

\* send_raw(data) called outside the worker (send(), the keepalive): the
\* whole item goes to transport.write, and no lock is taken. Without a
\* transport the call ends in the NameError of the undefined name logger.
SendRawCall ==
  /\ nsub < MaxItems
  /\ wire_out' = SendRaw(wire_out, transport, "data")
  /\ sock_out' = IF transport = "none" THEN sock_out
                 ELSE Append(sock_out, [id |-> nsub + 1, lo |-> 1, hi |-> ItemLen])
  /\ nsub' = nsub + 1
  /\ lastFail' = NoFail
  /\ UNCHANGED << send_queue, failed_send_stanza, worker, socket_errors, nstarts, lifeVars,
                  readVars >>

\* while not self.stop.is_set(): the loop is entered
WorkerEnters ==
  /\ worker.pc = "top"
  /\ ~stop
  /\ worker' = [worker EXCEPT !.pc = "waiting"]
  /\ lastFail' = NoFail
  /\ UNCHANGED << send_queue, failed_send_stanza, sock_out, socket_errors, nsub,
                  nstarts, lifeVars >>

\* while not stop and not session_started: wait(timeout=0.1); the wait is
\* over once either flag is set
WorkerWaited ==
  /\ worker.pc = "waiting"
  /\ stop \/ session_started
  /\ worker' = [worker EXCEPT !.pc = "taking"]
  /\ lastFail' = NoFail
  /\ UNCHANGED << send_queue, failed_send_stanza, sock_out, socket_errors, nsub,
                  nstarts, lifeVars >>

\* After the wait: the retained item if there is one, else send_queue.get(),
\* which blocks while the queue is empty. gated notes whether session_started
\* was set when the item was taken (history).
WorkerTake ==
  /\ worker.pc = "taking"
  /\ IF failed_send_stanza /= 0
     THEN /\ worker' = [pc |-> "sending", data |-> failed_send_stanza, sent |-> 0,
                        tries |-> 0, retained |-> failed_send_stanza,
                        gated |-> session_started]
          /\ failed_send_stanza' = 0
          /\ UNCHANGED send_queue
     ELSE /\ send_queue /= <<>>
          /\ worker' = [pc |-> "sending", data |-> Head(send_queue), sent |-> 0,
                        tries |-> 0, retained |-> 0, gated |-> session_started]
          /\ send_queue' = Tail(send_queue)
          /\ UNCHANGED failed_send_stanza
  /\ lastFail' = NoFail
  /\ UNCHANGED << sock_out, socket_errors, nsub, nstarts, lifeVars >>

\* while not self.stop.is_set() fails: self._end_thread('send')
WorkerExit ==
  /\ worker.pc = "top"
  /\ stop
  /\ worker' = [NoWorker EXCEPT !.pc = "ended"]
  /\ lastFail' = NoFail
  /\ UNCHANGED << send_queue, failed_send_stanza, sock_out, socket_errors, nsub,
                  nstarts, lifeVars >>

\* One turn of the inner loop under send_lock: socket.send takes k bytes.
WorkerSends(k) ==
  /\ worker.pc = "sending"
  /\ worker.sent < ItemLen /\ ~stop /\ session_started
  /\ k \in 1..(ItemLen - worker.sent)
  /\ transport /= "none"
  /\ SendBecomes(SocketSent(SendState, k))
  /\ UNCHANGED << send_queue, nsub, nstarts, stop, session_started >>

\* One turn of the inner loop in which socket.send raises.
WorkerSendFails(exc) ==
  /\ worker.pc = "sending"
  /\ worker.sent < ItemLen /\ ~stop /\ session_started
  /\ transport /= "none"
  /\ SendBecomes(SocketRaised(SendState, exc, stop))
  /\ UNCHANGED << send_queue, nsub, nstarts, stop, session_started >>

\* The inner loop is over: self.send_queue.task_done(), back to the top.
WorkerDone ==
  /\ worker.pc = "sending"
  /\ ~(worker.sent < ItemLen /\ ~stop /\ session_started)
  /\ worker' = [NoWorker EXCEPT !.pc = "top"]
  /\ lastFail' = NoFail
  /\ UNCHANGED << send_queue, failed_send_stanza, sock_out, socket_errors, nsub,
                  nstarts, lifeVars >>

\* set_stop()
SetStop ==
  /\ ~stop
  /\ stop' = TRUE
  /\ lastFail' = NoFail
  /\ UNCHANGED << session_started, disc_calls, send_queue, failed_send_stanza, worker,
                  sock_out, socket_errors, nsub, nstarts >>

\* self.session_started_event.set(), done by the layer above at session start
SessionStartedSet ==
  /\ ~session_started
  /\ session_started' = TRUE
  /\ lastFail' = NoFail
  /\ UNCHANGED << stop, disc_calls, send_queue, failed_send_stanza, worker,
                  sock_out, socket_errors, nsub, nstarts >>

(***************************************************************************)
(* Stream actions.                                                         *)
(***************************************************************************)
InitStream ==
  /\ transport = "none"
  /\ parser = NoParser
  /\ xml_depth = 0
  /\ xml_root = 0
  /\ stream_end = TRUE
  /\ wire_out = <<>>
  /\ received = <<>>
  /\ midTag = FALSE
  /\ lastCall = 0
  /\ frLog = <<>>
  /\ connHandlers = <<>>
  /\ nconn = 0
  /\ reconnect_delay = 0
  /\ handlers = <<>>
  /\ hbound = {}
  /\ filters_in = <<>>
  /\ runCount = [h \in HandlerIds |-> 0]
  /\ last = NoDispatch

\* connection_made(transport): init_parser() and the stream header
ConnectionMadeOp(tr) ==
  /\ nconn < MaxConnections
  /\ transport' = tr
  /\ parser' = NewParser
  /\ xml_depth' = 0
  /\ xml_root' = 0
  /\ wire_out' = SendRaw(<<>>, tr, "stream_header")
  /\ received' = <<>>
  /\ midTag' = FALSE
  /\ lastCall' = 0
  /\ frLog' = <<>>
  /\ connHandlers' = handlers
  /\ nconn' = nconn + 1
  /\ last' = NoDispatch
  /\ UNCHANGED << stream_end, reconnect_delay, handlers, hbound, filters_in, runCount >>

\* connection_made for a plain connection the environment hands over
ConnectionMade == ConnectionMadeOp("tcp")

StreamBecomes(st) ==
  /\ parser' = st.parser
  /\ xml_depth' = st.xml_depth
  /\ xml_root' = st.xml_root
  /\ stream_end' = st.stream_end
  /\ reconnect_delay' = st.reconnect_delay
  /\ frLog' = st.frLog
  /\ handlers' = st.handlers
  /\ runCount' = st.runCount
  /\ last' = st.last

\* data_received(data) called by the loop
DataReceived(chunk) ==
  /\ parser.live
  /\ StreamBecomes(DataReceivedOp(StreamState, chunk))
  /\ received' = received \o chunk
  /\ midTag' = (midTag \/ chunk[Len(chunk)].part = 1)
  /\ lastCall' = Len(frLog)
  /\ UNCHANGED << transport, wire_out, connHandlers, nconn, hbound, filters_in >>

\* register_handler(handler)
RegisterHandler(h) ==
  /\ Len(handlers) < MaxHandlers
  /\ h \notin hbound
  /\ handlers' = Append(handlers, h)
  /\ hbound' = hbound \cup {h}
  /\ last' = NoDispatch
  /\ UNCHANGED << framerVars, filters_in, runCount >>

\* remove_handler(name)
RemoveHandler(name) ==
  /\ handlers' = RemoveHandlerOp(handlers, name)
  /\ last' = NoDispatch
  /\ UNCHANGED << framerVars, hbound, filters_in, runCount >>

\* add_filter(mode, handler, order) on one chain; order -1 stands for None
AddFilterOp(chain, f, order) ==
  IF order /= -1 /\ order /= 0 THEN ListInsert(chain, order, f) ELSE Append(chain, f)

AddFilterIn(f, order) ==
  /\ Len(filters_in) < MaxFilters
  /\ filters_in' = AddFilterOp(filters_in, f, order)
  /\ last' = NoDispatch
  /\ UNCHANGED << framerVars, handlers, hbound, runCount >>

\* del_filter(mode, handler)
DelFilterIn(f) ==
  /\ \E i \in DOMAIN filters_in : filters_in[i] = f
  /\ filters_in' = ListRemove(filters_in, f)
  /\ last' = NoDispatch
  /\ UNCHANGED << framerVars, handlers, hbound, runCount >>

\* Chunks cut anywhere, also inside a tag.
AnyChunks ==
  UNION {Conts(received, n) : n \in 1..MaxChunk}

\* Chunks holding exactly the stream header, or one childless stanza.
WholeChunks ==
  IF PeerDepth(received) = 0 THEN Conts(received, 2)
  ELSE {c \in Conts(received, 2 + 2) : c[1].tok.ev = "start" /\ c[3].tok.ev = "end"}

(***************************************************************************)
(* The connection lifecycle: connect, reconnect, start_tls, disconnect,    *)
(* abort, pick_dns_answer.                                                 *)
(***************************************************************************)
Hosts == {"h1"}

\* RECONNECT_MAX_DELAY
RECONNECT_MAX_DELAY == 600

\* What resolve() of the resolver module yields for a domain: an iterator
\* over the candidates.
ResolvedAnswers == << "a1", "a2" >>

NoOp ==
  [op |-> "none", error |-> "none", reconnect |-> FALSE, send_close |-> FALSE,
   hadTransport |-> FALSE, pendingBefore |-> 0, killedBefore |-> 0, tls |-> FALSE,
   depthBefore |-> 0]

InitConn ==
  /\ conn_state = "disconnected"
  /\ pending = 0
  /\ use_ssl = FALSE
  /\ address = "h0"
  /\ dns_answers = [gen |-> FALSE, left |-> <<>>]
  /\ tls_pending = FALSE
  /\ wait_for_threads = TRUE
  /\ killed = 0
  /\ failures = 0
  /\ lastOp = NoOp

\* The fields connect, disconnect and abort work on.
ConnState ==
  [transport |-> transport, wire_out |-> wire_out, conn_state |-> conn_state,
   pending |-> pending, use_ssl |-> use_ssl, address |-> address, stop |-> stop,
   session_started |-> session_started, killed |-> killed, error |-> "none"]

\* connect(host, port, use_ssl): stop.clear(), the address when host and port
\* are given, the TLS flags, and a create_connection routine given to the loop;
\* the empty host "" is the default
ConnectOp(st, host, ssl) ==
  [st EXCEPT !.stop = FALSE,
             !.address = IF host /= "" THEN host ELSE @,
             !.use_ssl = ssl,
             !.pending = @ + 1]

\* reconnect(): self.connect() with every argument at its default
ReconnectOp(st) == ConnectOp(st, "", FALSE)

\* self.state.transition_any(['connected', 'disconnected'], 'disconnected', ...)
TransitionAny(cur, to) == to

\* abort(): the session flag, the stop flag, the wait for the threads, the
\* socket, the state, the 'killed' event. _wait_for_threads is no attribute
\* of the class, and without a socket self.socket is None.
AbortOp(st, waitForThreads) ==
  LET flagged == [st EXCEPT !.session_started = FALSE, !.stop = TRUE]
  IN IF waitForThreads THEN [flagged EXCEPT !.error = "AttributeError"]
     ELSE IF st.transport = "none" THEN [flagged EXCEPT !.error = "AttributeError"]
     ELSE [flagged EXCEPT !.conn_state = TransitionAny(@, "disconnected"),
                          !.killed = @ + 1]

ConnBecomes(st) ==
  /\ transport' = st.transport
  /\ wire_out' = st.wire_out
  /\ conn_state' = st.conn_state
  /\ pending' = st.pending
  /\ use_ssl' = st.use_ssl
  /\ address' = st.address
  /\ stop' = st.stop
  /\ session_started' = st.session_started
  /\ killed' = st.killed

\* connect(host, port, use_ssl=...) called by the application
Connect(host, ssl) ==
  /\ pending < MaxPending
  /\ ConnBecomes(ConnectOp(ConnState, host, ssl))
  /\ lastOp' = [NoOp EXCEPT !.op = "connect"]
  /\ UNCHANGED << dns_answers, tls_pending, wait_for_threads, failures, disc_calls >>

\* reconnect() called by the application
Reconnect ==
  /\ pending < MaxPending
  /\ ConnBecomes(ReconnectOp(ConnState))
  /\ lastOp' = [NoOp EXCEPT !.op = "reconnect"]
  /\ UNCHANGED << dns_answers, tls_pending, wait_for_threads, failures, disc_calls >>

\* The create_connection routine fails: its exception stays in the task.
ConnectFails ==
  /\ pending > 0
  /\ failures < MaxFailures
  /\ pending' = pending - 1
  /\ failures' = failures + 1
  /\ lastOp' = [NoOp EXCEPT !.op = "connect_failed"]
  /\ UNCHANGED << conn_state, use_ssl, address, dns_answers, tls_pending,
                  wait_for_threads, killed, lifeVars, framerVars, dispatchVars >>

\* The create_connection routine succeeds: the loop calls connection_made.
ConnectSucceeds ==
  /\ pending > 0
  /\ ConnectionMadeOp(IF use_ssl THEN "ssl" ELSE "tcp")
  /\ pending' = pending - 1
  /\ lastOp' = [NoOp EXCEPT !.op = "connection_made", !.depthBefore = xml_depth]
  /\ UNCHANGED << conn_state, use_ssl, address, dns_answers, tls_pending,
                  wait_for_threads, killed, failures, lifeVars >>

\* start_tls(): a create_connection routine over the socket in use with
\* ssl=self.ssl_context; without a socket the routine has nothing to wrap
StartTls ==
  /\ ~tls_pending
  /\ tls_pending' = (transport /= "none")
  /\ lastOp' = [NoOp EXCEPT !.op = "start_tls"]
  /\ UNCHANGED << conn_state, pending, use_ssl, address, dns_answers, wait_for_threads,
                  killed, failures, lifeVars, framerVars, dispatchVars >>

\* The handshake is over: the loop calls connection_made with the TLS transport.
TlsConnectionMade ==
  /\ tls_pending
  /\ ConnectionMadeOp("tls")
  /\ tls_pending' = FALSE
  /\ lastOp' = [NoOp EXCEPT !.op = "connection_made", !.tls = TRUE,
                            !.depthBefore = xml_depth]
  /\ UNCHANGED << conn_state, pending, use_ssl, address, dns_answers, wait_for_threads,
                  killed, failures, lifeVars >>

\* The peer's stream header arrives on the connection.
HeaderReceived ==
  /\ received = <<>>
  /\ \E c \in WholeChunks : DataReceived(c)
  /\ failures' = 0
  /\ lastOp' = [NoOp EXCEPT !.op = "data_received"]
  /\ UNCHANGED << conn_state, pending, use_ssl, address, dns_answers, tls_pending,
                  wait_for_threads, killed, lifeVars >>

\* The expat parser after an error: every later feed raises as well.
ParserFailed(p) == [p EXCEPT !.live = FALSE]

\* data_received(data) with bytes that are not well-formed: parser.feed
\* raises ParseError before any event is read, and nothing catches it
MalformedReceivedOp(st) ==
  [st EXCEPT !.parser = ParserFailed(@), !.escape = "ParseError"]

\* data_received(data) called by the loop with bytes that are not well-formed
MalformedReceived ==
  /\ parser.live
  /\ StreamBecomes(MalformedReceivedOp(StreamState))
  /\ lastOp' = [NoOp EXCEPT !.op = "data_received_malformed",
                            !.error = MalformedReceivedOp(StreamState).escape,
                            !.hadTransport = (transport /= "none")]
  /\ UNCHANGED << transport, wire_out, received, midTag, lastCall, connHandlers, nconn,
                  hbound, filters_in, conn_state, pending, use_ssl, address, dns_answers,
                  tls_pending, wait_for_threads, killed, failures, lifeVars >>

\* disconnect(reconnect, wait, send_close) called by the application
Disconnect(reconnect, wait, send_close) ==
  /\ ConnBecomes(DisconnectOp(ConnState, reconnect, wait, send_close))
  /\ disc_calls' = disc_calls
  /\ lastOp' = [NoOp EXCEPT !.op = "disconnect", !.reconnect = reconnect,
                            !.send_close = send_close, !.pendingBefore = pending,
                            !.hadTransport = (transport /= "none")]
  /\ UNCHANGED << dns_answers, tls_pending, wait_for_threads, failures >>

\* abort() called by the application
Abort ==
  /\ killed < MaxAborts
  /\ ConnBecomes(AbortOp(ConnState, wait_for_threads))
  /\ lastOp' = [NoOp EXCEPT !.op = "abort", !.pendingBefore = pending,
                            !.killedBefore = killed,
                            !.hadTransport = (transport /= "none"),
                            !.error = AbortOp(ConnState, wait_for_threads).error]
  /\ UNCHANGED << dns_answers, tls_pending, wait_for_threads, failures, disc_calls >>

\* self._disconnect_wait_for_threads = False, set by the application
NoWaitForThreads ==
  /\ wait_for_threads
  /\ wait_for_threads' = FALSE
  /\ lastOp' = NoOp
  /\ UNCHANGED << conn_state, pending, use_ssl, address, dns_answers, tls_pending, killed,
                  failures, lifeVars, framerVars, dispatchVars >>

\* pick_dns_answer(domain, port): the records are fetched when dns_answers is
\* empty, and next() takes one candidate from the iterator
PickDnsAnswerOp(ans) ==
  LET cur == IF ~ans.gen THEN [gen |-> TRUE, left |-> ResolvedAnswers] ELSE ans
  IN IF cur.left = <<>> THEN [ans |-> cur, error |-> "StopIteration"]
     ELSE [ans |-> [cur EXCEPT !.left = Tail(@)], error |-> "none"]

PickDnsAnswer ==
  /\ dns_answers' = PickDnsAnswerOp(dns_answers).ans
  /\ lastOp' = [NoOp EXCEPT !.op = "pick_dns_answer",
                            !.error = PickDnsAnswerOp(dns_answers).error]
  /\ UNCHANGED << conn_state, pending, use_ssl, address, tls_pending, wait_for_threads,
                  killed, failures, lifeVars, framerVars, dispatchVars >>

(***************************************************************************)
(* The session timers: the subscriptions __init__ makes to 'connected',    *)
(* 'disconnected' and 'session_start', and the callbacks they schedule.    *)
(***************************************************************************)
InitSession ==
  /\ whitespace_keepalive = TRUE
  /\ cert = "none"
  /\ signalled = FALSE
  /\ reactions = <<>>
  /\ npub = 0

\* The fields the subscriptions and their callbacks work on.
SessState ==
  [ts |-> timers, se |-> scheduled_events, error |-> "none", conn |-> ConnState,
   discs |-> disc_calls, reactions |-> reactions, cert |-> cert, signalled |-> signalled,
   handled |-> Len(event_handlers["ssl_expired_cert"])]

\* _handle_session_timeout(): disconnect(reconnect=self.auto_reconnect) when
\* session_started_event is not set
HandleSessionTimeout(st) ==
  IF ~st.conn.session_started
  THEN [st EXCEPT !.conn = DisconnectOp(@, AutoReconnect, FALSE, TRUE),
                  !.discs = DisconnectCalled(@, AutoReconnect, TRUE),
                  !.reactions = Append(@, [kind |-> "timeout", signalled |-> st.signalled,
                                           handled |-> st.handled])]
  ELSE st

\* restart(): reconnect() when nothing is subscribed to 'ssl_expired_cert',
\* else the event
Restart(st) ==
  IF st.handled = 0
  THEN [st EXCEPT !.conn = ReconnectOp(@),
                  !.reactions = Append(@, [kind |-> "reconnect", signalled |-> st.signalled,
                                           handled |-> st.handled])]
  ELSE [st EXCEPT !.reactions = Append(@, [kind |-> "ssl_expired_cert",
                                           signalled |-> st.signalled,
                                           handled |-> st.handled])]

\* send_raw(' ') as the keepalive calls it: without a transport the branch
\* names `logger`, which the module does not define
KeepaliveSend(st) ==
  IF st.conn.transport = "none" THEN [st EXCEPT !.error = "NameError"]
  ELSE [st EXCEPT !.conn.wire_out = SendRaw(@, st.conn.transport, " ")]

\* The callbacks the stream schedules itself.
RunBuiltin(st, cb) ==
  IF cb = "_handle_session_timeout" THEN HandleSessionTimeout(st)
  ELSE IF cb = "restart" THEN Restart(st)
  ELSE IF cb = "send_raw" THEN KeepaliveSend(st)
  ELSE st

\* _session_timeout_check(event)
SessionTimeoutCheck(st) ==
  ScheduleOp(st, "Session timeout check", "_handle_session_timeout", FALSE)

\* _start_keepalive(event)
StartKeepalive(st) == ScheduleOp(st, "Whitespace Keepalive", "send_raw", TRUE)

\* _remove_schedules(event)
RemoveSchedules(st) ==
  CancelScheduleOp(CancelScheduleOp(st, "Whitespace Keepalive"), "Certificate Expiration")

\* _cert_expiration(event): nothing without a certificate or a time to live;
\* restart() at once for a certificate already expired; then the timer
CertExpiration(st) ==
  IF st.cert = "none" \/ st.cert = "no_ttl" THEN st
  ELSE ScheduleOp(IF st.cert = "expired" THEN Restart(st) ELSE st,
                  "Certificate Expiration", "restart", FALSE)

\* handler[0](data) for one subscriber of a lifecycle event
RunSubscriber(st, ptr) ==
  IF ptr = "_session_timeout_check" THEN SessionTimeoutCheck(st)
  ELSE IF ptr = "_remove_schedules" THEN RemoveSchedules(st)
  ELSE IF ptr = "_start_keepalive" THEN StartKeepalive(st)
  ELSE IF ptr = "_cert_expiration" THEN CertExpiration(st)
  ELSE st

\* event(name): the subscribers of name in the order of subscription
RECURSIVE PublishOp(_, _, _)
PublishOp(st, lst, i) ==
  IF i > Len(lst) THEN st ELSE PublishOp(RunSubscriber(st, lst[i].ptr), lst, i + 1)

\* The timer callback of handle h: cb(), then the entry of its name is
\* deleted or replaced, unless cb raised
SessionFire(st, h) ==
  LET t == st.ts[h]
      ran == RunBuiltin([st EXCEPT !.ts[h].st = "done", !.ts[h].fired = 1], t.cb)
  IN IF ran.error /= "none" THEN ran
     ELSE IF t.repeat THEN ExecuteAndReschedule(ran, t.name, t.cb)
     ELSE ExecuteAndUnschedule(ran, t.name, t.cb)

SessBecomes(st) ==
  /\ timers' = st.ts
  /\ scheduled_events' = st.se
  /\ disc_calls' = st.discs
  /\ reactions' = st.reactions
  /\ ConnBecomes(st.conn)

\* event(name) published by the layer above the stream for a lifecycle event
\* of a connection that was made
Publish(name) ==
  /\ transport /= "none"
  /\ npub < MaxPublish
  /\ Len(timers) + Len(event_handlers[name]) <= MaxSessionTimers
  /\ SessBecomes(PublishOp(SessState, event_handlers[name], 1))
  /\ npub' = npub + 1
  /\ signalled' = IF name = "connected" THEN FALSE ELSE signalled
  /\ lastFire' = [valid |-> FALSE, handle |-> 0, error |-> "none"]
  /\ lastOp' = [NoOp EXCEPT !.op = name]
  /\ UNCHANGED << cert, dns_answers, tls_pending, wait_for_threads, failures >>

\* The loop runs a due handle of the stream's own timers.
SessionTimerFires(h) ==
  /\ h \in DOMAIN timers
  /\ timers[h].st = "pending"
  /\ timers[h].repeat => Len(timers) < MaxSessionTimers
  /\ SessBecomes(SessionFire(SessState, h))
  /\ lastFire' = [valid |-> TRUE, handle |-> h, error |-> SessionFire(SessState, h).error]
  /\ lastOp' = NoOp
  /\ UNCHANGED << cert, signalled, npub, dns_answers, tls_pending, wait_for_threads,
                  failures >>

\* self.whitespace_keepalive = False, set by the application before the
\* stream is used
NoWhitespaceKeepalive ==
  /\ npub = 0
  /\ whitespace_keepalive
  /\ whitespace_keepalive' = FALSE

\* The peer's certificate is kept in _der_cert by the TLS layer.
CertReceived(c) ==
  /\ transport /= "none"
  /\ cert = "none"
  /\ cert' = c
  /\ UNCHANGED << signalled, reactions, npub >>

\* session_started_event.set() at session start
SessionSignalled ==
  /\ SessionStartedSet
  /\ signalled' = TRUE
  /\ UNCHANGED << cert, reactions, npub >>

(***************************************************************************)
(* Root stanza classes: register_stanza, remove_stanza, _build_stanza.     *)
(***************************************************************************)
\* Namespaces of the elements the peer sends; "" is no namespace.
Namespaces == {"", "tls", "client"}

\* The root stanza classes the application registers: Proceed and Failure of
\* the STARTTLS feature and a class of the application with the local name
\* of Proceed in the client namespace.
StanzaClasses ==
  { [cls |-> "Proceed", name |-> "proceed", namespace |-> "tls"],
    [cls |-> "Failure", name |-> "failure", namespace |-> "tls"],
    [cls |-> "AppProceed", name |-> "proceed", namespace |-> "client"] }

\* The generic stanza class.
StanzaBase == "StanzaBase"

\* The elements handed to _build_stanza: a namespace and a local name.
Elements == [ns : Namespaces, name : {"proceed", "failure"}]

\* "{%s}%s" % (ns, name)
QualifiedTag(ns, name) == << "{", ns, "}", name >>

\* xml.tag as ElementTree gives it: the bare local name without a namespace
ElementTag(el) == IF el.ns = "" THEN << el.name >> ELSE QualifiedTag(el.ns, el.name)

\* stanza_class.tag_name()
TagName(c) == QualifiedTag(c.namespace, c.name)

\* Variant: only the class's own qualified tag matches.
StanzaMatchesOwnTag(tag, ns, c) == tag = TagName(c)

\* xml.tag == "{%s}%s" % (default_ns, stanza_class.name) or
\* xml.tag == stanza_class.tag_name()
StanzaMatches(tag, ns, c) == tag = QualifiedTag(ns, c.name) \/ tag = TagName(c)

\* for stanza_class in self.__root_stanza: ... break
RECURSIVE StanzaType(_, _, _, _)
StanzaType(reg, i, tag, ns) ==
  IF i > Len(reg) THEN StanzaBase
  ELSE IF StanzaMatches(tag, ns, reg[i]) THEN reg[i].cls
  ELSE StanzaType(reg, i + 1, tag, ns)

\* _build_stanza(xml, default_ns): the class of the stanza returned; the
\* argument "none" is the default None
BuildStanzaOp(reg, el, arg, streamNs) ==
  StanzaType(reg, 1, ElementTag(el), IF arg = "none" THEN streamNs ELSE arg)

NoBuild ==
  [valid |-> FALSE, el |-> [ns |-> "", name |-> "-"], ns |-> "", type |-> "-"]

InitStanzas ==
  /\ root_stanza = <<>>
  /\ default_ns = ""
  /\ lastBuild = NoBuild

\* register_stanza(stanza_class)
RegisterStanza(c) ==
  /\ Len(root_stanza) < MaxStanzas
  /\ root_stanza' = Append(root_stanza, c)
  /\ lastBuild' = NoBuild
  /\ UNCHANGED default_ns

\* remove_stanza(stanza_class)
RemoveStanza(c) ==
  /\ \E i \in DOMAIN root_stanza : root_stanza[i] = c
  /\ root_stanza' = ListRemove(root_stanza, c)
  /\ lastBuild' = NoBuild
  /\ UNCHANGED default_ns

\* self.default_ns = ns, set by the layer above
SetDefaultNs(ns) ==
  /\ default_ns /= ns
  /\ default_ns' = ns
  /\ lastBuild' = NoBuild
  /\ UNCHANGED root_stanza

\* _build_stanza(xml, default_ns=arg)
BuildStanza(el, arg) ==
  /\ lastBuild' = [valid |-> TRUE, el |-> el,
                   ns |-> IF arg = "none" THEN default_ns ELSE arg,
                   type |-> BuildStanzaOp(root_stanza, el, arg, default_ns)]
  /\ UNCHANGED << root_stanza, default_ns >>

(***************************************************************************)
(* Outbound filters: add_filter, del_filter and send.                      *)
(***************************************************************************)
\* The filter functions the application puts on the outbound chains: one
\* that changes the stanza and one that drops it.
OutFilterIds == {f \in FilterIds : FilterPool[f] \in {"mark", "drop"}}

\* What send is given: a stanza object (ElementBase) or a string.
SendKinds == {"stanza", "string"}

\* Variant: an outbound chain that goes on after a filter returned None.
OutFilterStopsNever(data) == FALSE

\* if data is None: return
OutFilterStops(data) == data = "None"

\* filter(data) for the filter functions of the pool
OutFilter(f, data) ==
  IF FilterPool[f] = "drop" THEN "None"
  ELSE IF FilterPool[f] = "mark" THEN "filtered"
  ELSE data

\* for filter in self.__filters[mode]: data = filter(data); if data is None:
\* return. lock is the lock held while the chain runs ("none" for no lock).
RECURSIVE OutChain(_, _, _, _, _)
OutChain(fs, i, mode, lock, st) ==
  IF i > Len(fs) THEN st
  ELSE LET d == OutFilter(fs[i], st.data)
           ran == [st EXCEPT !.data = d,
                             !.applied = Append(@, [mode |-> mode, f |-> fs[i],
                                                    lock |-> lock])]
       IN IF OutFilterStops(d) THEN [ran EXCEPT !.returned = TRUE]
          ELSE OutChain(fs, i + 1, mode, lock, ran)

\* tostring(data.xml, ...): the text of the stanza
StanzaText(data) == IF data = "filtered" THEN "<filtered/>" ELSE "<stanza/>"

\* send_raw(data) inside send: without a transport the NameError of the
\* undefined name logger leaves send
SendWrites(st, text) ==
  IF st.transport = "none" THEN [st EXCEPT !.error = "NameError"]
  ELSE [st EXCEPT !.wire_out = SendRaw(@, st.transport, text), !.written = TRUE]

\* with self.send_queue_lock: the 'out_sync' chain, tostring, send_raw
SendLocked(st, use_filters, sync) ==
  LET filtered == IF use_filters THEN OutChain(sync, 1, "out_sync", "send_queue_lock", st)
                  ELSE st
  IN IF filtered.returned THEN filtered ELSE SendWrites(filtered, StanzaText(filtered.data))

\* send(data, use_filters=use_filters) with no mask
SendOp(st, kind, use_filters, out, sync) ==
  IF kind = "stanza"
  THEN LET filtered == IF use_filters THEN OutChain(out, 1, "out", "none", st) ELSE st
       IN IF filtered.returned THEN filtered ELSE SendLocked(filtered, use_filters, sync)
  ELSE SendWrites(st, "data")

NoSend ==
  [valid |-> FALSE, kind |-> "-", use_filters |-> FALSE, applied |-> <<>>,
   returned |-> FALSE, written |-> FALSE, error |-> "none", before |-> <<>>,
   queueBefore |-> <<>>]

NoAdd == [valid |-> FALSE, mode |-> "-", f |-> 0, order |-> -1, before |-> <<>>]

InitOut ==
  /\ filters_out = <<>>
  /\ filters_sync = <<>>
  /\ lastSend = NoSend
  /\ lastAdd = NoAdd

\* The state send works on.
OutState(kind) ==
  [data |-> kind, applied |-> <<>>, returned |-> FALSE, written |-> FALSE,
   error |-> "none", transport |-> transport, wire_out |-> wire_out]

\* send(data, use_filters=use_filters) called by the application
Send(kind, use_filters) ==
  /\ nsub < MaxSends
  /\ nsub' = nsub + 1
  /\ wire_out' = SendOp(OutState(kind), kind, use_filters, filters_out, filters_sync).wire_out
  /\ lastSend' =
       [valid |-> TRUE, kind |-> kind, use_filters |-> use_filters,
        applied |-> SendOp(OutState(kind), kind, use_filters, filters_out, filters_sync).applied,
        returned |-> SendOp(OutState(kind), kind, use_filters, filters_out, filters_sync).returned,
        written |-> SendOp(OutState(kind), kind, use_filters, filters_out, filters_sync).written,
        error |-> SendOp(OutState(kind), kind, use_filters, filters_out, filters_sync).error,
        before |-> wire_out, queueBefore |-> send_queue]
  /\ lastAdd' = NoAdd
  /\ UNCHANGED << filters_out, filters_sync, send_queue, failed_send_stanza, worker, sock_out,
                  socket_errors, lastFail, nstarts, readVars >>

\* add_filter(mode, handler, order) for the outbound modes; order -1 stands
\* for None
AddFilter(mode, f, order) ==
  /\ Len(IF mode = "out" THEN filters_out ELSE filters_sync) < MaxOutFilters
  /\ filters_out' = IF mode = "out" THEN AddFilterOp(filters_out, f, order) ELSE filters_out
  /\ filters_sync' = IF mode = "out_sync" THEN AddFilterOp(filters_sync, f, order)
                     ELSE filters_sync
  /\ lastAdd' = [valid |-> TRUE, mode |-> mode, f |-> f, order |-> order,
                 before |-> IF mode = "out" THEN filters_out ELSE filters_sync]
  /\ lastSend' = NoSend

\* del_filter(mode, handler) for the outbound modes
DelFilter(mode, f) ==
  /\ \E i \in DOMAIN (IF mode = "out" THEN filters_out ELSE filters_sync) :
        (IF mode = "out" THEN filters_out ELSE filters_sync)[i] = f
  /\ filters_out' = IF mode = "out" THEN ListRemove(filters_out, f) ELSE filters_out
  /\ filters_sync' = IF mode = "out_sync" THEN ListRemove(filters_sync, f) ELSE filters_sync
  /\ lastAdd' = NoAdd
  /\ lastSend' = NoSend

(***************************************************************************)
(* Specifications.                                                         *)
(***************************************************************************)
Init ==
  /\ InitStream /\ InitEvents /\ InitSched /\ InitLife /\ InitSend /\ InitConn
  /\ InitSession /\ InitStanzas /\ InitOut

\* The framer fed arbitrary chunks, with handlers registered before connecting.
FramerHandlers == {1, 3}

NextFramer ==
  /\ \/ ConnectionMade
     \/ \E c \in AnyChunks : Len(received) + Len(c) <= MaxWire /\ DataReceived(c)
     \/ \E h \in FramerHandlers : transport = "none" /\ RegisterHandler(h)
  /\ UNCHANGED << restVars, sessVars, eventVars, schedVars, lifeVars, sendVars, connVars >>

SpecFramer == Init /\ [][NextFramer]_vars

\* Stanza dispatch, one stanza per chunk, with handlers and filters changing.
NextDispatch ==
  /\ \/ nconn = 0 /\ handlers = <<>> /\ filters_in = <<>> /\ ConnectionMade
     \/ \E c \in WholeChunks : Len(received) + Len(c) <= MaxWire /\ DataReceived(c)
     \/ \E h \in HandlerIds : RegisterHandler(h)
     \/ \E n \in {"A", "B", "C"} : RemoveHandler(n)
     \/ \E f \in FilterIds, o \in -1..MaxFilters : AddFilterIn(f, o)
     \/ \E f \in FilterIds : DelFilterIn(f)
  /\ UNCHANGED << restVars, sessVars, eventVars, schedVars, lifeVars, sendVars, connVars >>

SpecDispatch == Init /\ [][NextDispatch]_vars

\* The scheduler driven by the application and the loop's clock.
NextSched ==
  \/ /\ \/ \E n \in SchedNames, cb \in CallbackPool, rep \in BOOLEAN : Schedule(n, cb, rep)
        \/ \E n \in SchedNames : CancelSchedule(n)
        \/ \E h \in 1..MaxTimers : TimerFires(h)
     /\ UNCHANGED << restVars, sessVars, framerVars, dispatchVars, eventVars, lifeVars, sendVars, connVars >>
  \/ /\ SetStop
     /\ lastFire' = [valid |-> FALSE, handle |-> 0, error |-> "none"]
     /\ UNCHANGED << restVars, sessVars, framerVars, dispatchVars, eventVars, timers,
                     scheduled_events, connVars >>

SpecSched == Init /\ [][NextSched]_vars

NextEvent ==
  /\ \/ \E n \in UserEvents, p \in SubscriberPool, t \in BOOLEAN, d \in BOOLEAN :
          AddEventHandler(n, p, t, d)
     \/ \E n \in UserEvents, p \in SubscriberPool : DelEventHandler(n, p)
     \/ \E n \in UserEvents, direct \in BOOLEAN, hasHook \in BOOLEAN : Event(n, direct, hasHook)
     \/ \E k \in 1..MaxThreads : ThreadRun(k)
  /\ UNCHANGED << restVars, sessVars, framerVars, dispatchVars, schedVars, lifeVars, sendVars, connVars >>

SpecEvent == Init /\ [][NextEvent]_vars

\* The send worker beside direct send_raw calls on one connection, and the
\* calls that clear the flags its loop tests.
NextSend ==
  \/ /\ \/ StartSendThread
        \/ QueuePut
        \/ WorkerEnters
        \/ WorkerWaited
        \/ WorkerTake
        \/ WorkerExit
        \/ \E k \in 1..ItemLen : WorkerSends(k)
        \/ \E exc \in SendErrors : WorkerSendFails(exc)
        \/ WorkerDone
        \/ SetStop
        \/ SessionStartedSet
     /\ UNCHANGED << restVars, sessVars, framerVars, dispatchVars, eventVars, schedVars, connVars >>
  \/ /\ nconn = 0 /\ ConnectionMade
     /\ UNCHANGED << restVars, sessVars, eventVars, schedVars, lifeVars, sendVars, connVars >>
  \/ /\ SendRawCall
     /\ UNCHANGED << restVars, sessVars, dispatchVars, eventVars, schedVars, connVars >>
  \/ /\ \/ Abort
        \/ Reconnect
     /\ lastFail' = NoFail
     /\ UNCHANGED << restVars, sessVars, readVars, dispatchVars, eventVars, schedVars,
                     send_queue, failed_send_stanza, worker, sock_out, socket_errors,
                     nsub, nstarts >>

SpecSend == Init /\ [][NextSend]_vars

\* A step of the send thread itself; socket.send raising is left to the
\* environment.
WorkerStep ==
  /\ \/ WorkerEnters
     \/ WorkerWaited
     \/ WorkerTake
     \/ WorkerExit
     \/ \E k \in 1..ItemLen : WorkerSends(k)
     \/ WorkerDone
  /\ UNCHANGED << restVars, sessVars, framerVars, dispatchVars, eventVars, schedVars, connVars >>

\* The send thread is a running thread: whenever it can take its next step it
\* eventually does. Nothing obliges the callers to submit or to set a flag.
SpecSendFair == SpecSend /\ WF_vars(WorkerStep)

\* Connection attempts, their outcomes and the STARTTLS upgrade.
NextConn ==
  \/ /\ \/ \E h \in Hosts \cup {""}, ssl \in BOOLEAN : Connect(h, ssl)
        \/ Reconnect
     /\ UNCHANGED << restVars, sessVars, readVars, dispatchVars, eventVars, schedVars, sendVars >>
  \/ /\ \/ ConnectFails
        \/ StartTls
        \/ PickDnsAnswer
     /\ UNCHANGED << restVars, sessVars, eventVars, schedVars, sendVars >>
  \/ /\ \/ ConnectSucceeds
        \/ TlsConnectionMade
        \/ HeaderReceived
     /\ UNCHANGED << restVars, sessVars, eventVars, schedVars, sendVars >>
  \/ /\ nsub = 0
     /\ SendRawCall
     /\ lastOp' = NoOp
     /\ UNCHANGED << restVars, sessVars, dispatchVars, eventVars, schedVars, conn_state, pending, use_ssl,
                     address, dns_answers, tls_pending, wait_for_threads, killed, failures >>

SpecConn == Init /\ [][NextConn]_vars

\* Teardown: disconnect and abort, on a stream connected or not.
NextTeardown ==
  \/ /\ \/ \E r \in BOOLEAN, w \in BOOLEAN, c \in BOOLEAN : Disconnect(r, w, c)
        \/ Abort
        \/ Reconnect
     /\ UNCHANGED << restVars, sessVars, readVars, dispatchVars, eventVars, schedVars, sendVars >>
  \/ /\ NoWaitForThreads
     /\ UNCHANGED << restVars, sessVars, eventVars, schedVars, sendVars >>
  \/ /\ MalformedReceived
     /\ UNCHANGED << restVars, sessVars, eventVars, schedVars, sendVars >>
  \/ /\ ConnectSucceeds
     /\ UNCHANGED << restVars, sessVars, eventVars, schedVars, sendVars >>
  \/ /\ \/ SessionStartedSet
        \/ SetStop
     /\ lastOp' = NoOp
     /\ UNCHANGED << restVars, sessVars, framerVars, dispatchVars, eventVars, schedVars, conn_state, pending,
                     use_ssl, address, dns_answers, tls_pending, wait_for_threads, killed,
                     failures >>
  \/ /\ SendRawCall
     /\ lastOp' = NoOp
     /\ UNCHANGED << restVars, sessVars, dispatchVars, eventVars, schedVars, conn_state, pending, use_ssl,
                     address, dns_answers, tls_pending, wait_for_threads, killed, failures >>

SpecTeardown == Init /\ [][NextTeardown]_vars

\* The stream's own timers over the lifecycle events of a connection.
NextSession ==
  \/ /\ \E n \in {"connected", "disconnected", "session_start"} : Publish(n)
     /\ UNCHANGED << restVars, readVars, dispatchVars, event_handlers, threads, lastEvent, spent,
                     nevents, sendVars >>
  \/ /\ \E h \in 1..MaxSessionTimers : SessionTimerFires(h)
     /\ UNCHANGED << restVars, readVars, dispatchVars, eventVars, sendVars >>
  \/ /\ \E c \in {"no_ttl", "valid", "expired"} : CertReceived(c)
     /\ UNCHANGED << restVars, framerVars, dispatchVars, eventVars, schedVars, lifeVars, sendVars,
                     connVars >>
  \/ /\ NoWhitespaceKeepalive
     /\ UNCHANGED << framerVars, dispatchVars, eventVars, schedVars, lifeVars, sendVars,
                     connVars, sessVars, stanzaVars, outVars >>
  \/ /\ SessionSignalled
     /\ lastFire' = [valid |-> FALSE, handle |-> 0, error |-> "none"]
     /\ UNCHANGED << restVars, framerVars, dispatchVars, eventVars, scheduled_events, timers,
                     connVars >>
  \/ /\ AddEventHandler("ssl_expired_cert", "cb_ok", FALSE, FALSE)
     /\ UNCHANGED << restVars, framerVars, dispatchVars, schedVars, lifeVars, sendVars, connVars,
                     sessVars >>
  \/ /\ session_started
     /\ Abort
     /\ lastFire' = [valid |-> FALSE, handle |-> 0, error |-> "none"]
     /\ UNCHANGED << restVars, readVars, dispatchVars, eventVars, scheduled_events, timers, sendVars,
                     sessVars >>
  \/ /\ nconn = 0 /\ ConnectionMade
     /\ UNCHANGED << restVars, eventVars, schedVars, lifeVars, sendVars, connVars, sessVars >>

SpecSession == Init /\ [][NextSession]_vars

\* The registry of root stanza classes and the stanzas built from elements.
NextStanzas ==
  /\ \/ \E c \in StanzaClasses : RegisterStanza(c)
     \/ \E c \in StanzaClasses : RemoveStanza(c)
     \/ \E ns \in Namespaces : SetDefaultNs(ns)
     \/ \E el \in Elements, arg \in Namespaces \cup {"none"} : BuildStanza(el, arg)
  /\ UNCHANGED << framerVars, dispatchVars, eventVars, schedVars, lifeVars, sendVars,
                  connVars, sessVars, outVars, whitespace_keepalive >>

SpecStanzas == Init /\ [][NextStanzas]_vars

\* Outbound filter chains and the stanzas sent through them.
NextOut ==
  \/ /\ \E m \in {"out", "out_sync"}, f \in OutFilterIds, k \in -1..MaxOutFilters :
          AddFilter(m, f, k)
     /\ UNCHANGED << framerVars, dispatchVars, eventVars, schedVars, lifeVars, sendVars,
                     connVars, sessVars, stanzaVars, whitespace_keepalive >>
  \/ /\ \E m \in {"out", "out_sync"}, f \in OutFilterIds : DelFilter(m, f)
     /\ UNCHANGED << framerVars, dispatchVars, eventVars, schedVars, lifeVars, sendVars,
                     connVars, sessVars, stanzaVars, whitespace_keepalive >>
  \/ /\ \E kind \in SendKinds, u \in BOOLEAN : Send(kind, u)
     /\ UNCHANGED << dispatchVars, eventVars, schedVars, lifeVars, connVars, sessVars,
                     stanzaVars, whitespace_keepalive >>
  \/ /\ nconn = 0 /\ ConnectionMade
     /\ lastSend' = NoSend
     /\ lastAdd' = NoAdd
     /\ UNCHANGED << eventVars, schedVars, lifeVars, sendVars, connVars, sessVars,
                     stanzaVars, filters_out, filters_sync, whitespace_keepalive >>

SpecOut == Init /\ [][NextOut]_vars

(***************************************************************************)
(* Properties of the framer (SpecFramer).                                  *)
(***************************************************************************)
SeqOf(seq, F(_)) == [i \in DOMAIN seq |-> F(seq[i])]

\* The elements, numbered by their start tags, whose end tag leaves exactly
\* the root open, in the order the end tags come on the wire.
RECURSIVE DepthOneCloses(_, _, _, _)
DepthOneCloses(toks, open, nextId, acc) ==
  IF toks = <<>> THEN acc
  ELSE IF Head(toks).tok.ev = "start"
       THEN DepthOneCloses(Tail(toks), Append(open, nextId), nextId + 1, acc)
       ELSE DepthOneCloses(Tail(toks), SubSeq(open, 1, Len(open) - 1), nextId,
                           IF Len(open) = 2 THEN Append(acc, open[Len(open)]) ELSE acc)

StanzaSignals == SelectSeq(frLog, LAMBDA s : s.sig = "stanza")

EndTags(bytes) == SelectSeq(CompleteTokens(bytes), LAMBDA b : b.tok.ev = "end")

\* C1: the elements dispatched as stanzas are exactly the elements whose end
\* tag brings the depth back to 1, each once and in wire order; an element
\* closed deeper is never dispatched.
C1_StanzaAtDepthOne ==
  SeqOf(StanzaSignals, LAMBDA s : s.el)
    = DepthOneCloses(CompleteTokens(received), <<>>, 1, <<>>)

\* A stanza with a child has been dispatched: the child's end tag came
\* first and was not dispatched.
C1_Witness ==
  /\ Len(StanzaSignals) >= 1
  /\ xml_depth >= 1
  /\ Len(EndTags(received)) > Len(StanzaSignals)

\* The stream as connection_made left it, before any byte of this connection.
ConnectedState ==
  [parser |-> NewParser, xml_depth |-> 0, xml_root |-> 0, stream_end |-> stream_end,
   reconnect_delay |-> reconnect_delay, frLog |-> <<>>, handlers |-> connHandlers,
   filters_in |-> filters_in, runCount |-> [h \in HandlerIds |-> 0],
   last |-> NoDispatch, escape |-> NoException]

\* What the program shows of its reading: the signals in order, the depth,
\* the root, the handler list, the last dispatch and the unread events.
Observable(st) ==
  [frLog |-> st.frLog, xml_depth |-> st.xml_depth, xml_root |-> st.xml_root,
   handlers |-> st.handlers, last |-> st.last, unread |-> st.parser.events,
   open |-> st.parser.stack]

FirstDrop(fs) ==
  CHOOSE i \in DOMAIN fs :
    /\ FilterPool[fs[i]] = "drop"
    /\ \A j \in 1..(i - 1) : FilterPool[fs[j]] /= "drop"

\* C5: when an inbound filter returns None, the filters after it are not
\* applied, no handler is run, nothing is removed and unhandled() is not called.
C5_DroppedStanzaStops ==
  (last.valid /\ \E i \in DOMAIN last.filters : FilterPool[last.filters[i]] = "drop") =>
    /\ last.dropped
    /\ last.applied = SubSeq(last.filters, 1, FirstDrop(last.filters))
    /\ last.runs = <<>>
    /\ last.unhandledCalls = 0
    /\ handlers = last.before

\* A stanza was dropped by a filter that was not the last of the chain while
\* a handler matching it was registered.
C5_Witness ==
  /\ last.valid
  /\ last.dropped
  /\ Len(last.applied) < Len(last.filters)
  /\ MatchedHandlers(last.before, last.tag) /= <<>>

\* C6: a stanza the filters let through gets its unhandled() called exactly
\* once when no registered handler matches it, and not at all otherwise.
C6_UnhandledIffNoMatch ==
  (last.valid /\ ~last.dropped) =>
    last.unhandledCalls =
      IF MatchedHandlers(last.before, last.tag) = <<>> THEN 1 ELSE 0

\* Handlers are registered, none matches the stanza, unhandled() was called.
C6_Witness ==
  /\ last.valid
  /\ ~last.dropped
  /\ last.before /= <<>>
  /\ last.matched = <<>>
  /\ last.unhandledCalls = 1

(***************************************************************************)
(* Properties of the event bus (SpecEvent).                                *)
(***************************************************************************)
\* C7: a direct publish has called every subscriber present at the call, in
\* registration order, when event() is over.
C7_DirectCallsAll ==
  (lastEvent.valid /\ lastEvent.direct) => lastEvent.invoked = lastEvent.before

Disposables(seq) == SelectSeq(seq, LAMBDA sub : sub.disposable)

\* C8: a disposable subscriber is dispatched for one publish, is then out of
\* the table, and is not dispatched for a later publish.
C8_DisposableOnce ==
  lastEvent.valid =>
    /\ ~lastEvent.again
    /\ Len(lastEvent.after) = Len(lastEvent.before) - Len(Disposables(lastEvent.dispatched))

RaisingSubs(seq) == SelectSeq(seq, LAMBDA sub : SubscriberRaises(sub.ptr))

RaisingRuns(seq) == SelectSeq(seq, LAMBDA r : Raises(r.h) /= NoException)

\* C9: an exception of a stanza handler or of an event subscriber is caught
\* and handed to the payload's exception hook, or to the stream's when the
\* payload has none, and the handlers and subscribers after it are run.
C9_FailureIsolated ==
  /\ (lastEvent.valid /\ RaisingSubs(lastEvent.invoked) /= <<>>) =>
       /\ lastEvent.reports
            = SeqOf(RaisingSubs(lastEvent.invoked),
                    LAMBDA sub : [ptr |-> sub.ptr, hook |-> ReportHook(lastEvent.hasHook)])
       /\ lastEvent.dispatched = lastEvent.before
  /\ (last.valid /\ RaisingRuns(last.runs) /= <<>>) =>
       /\ last.reports
            = SeqOf(RaisingRuns(last.runs),
                    LAMBDA r : [h |-> r.h, exc |-> Raises(r.h), hook |-> "stanza"])
       /\ SeqOf(last.runs, LAMBDA r : r.h) = last.matched

(***************************************************************************)
(* Properties of the scheduler (SpecSched).                                *)
(***************************************************************************)
\* C10: after schedule() on a name that has an entry, the earlier timer is
\* neither pending nor ever fired, and the firing of the new timer meets no
\* error of the scheduler's own.
C10_ScheduleReplaces ==
  /\ \A h \in DOMAIN timers :
       timers[h].superseded => (timers[h].st /= "pending" /\ timers[h].fired = 0)
  /\ (lastFire.valid /\ \E h \in DOMAIN timers :
                          /\ timers[h].superseded
                          /\ timers[h].name = timers[lastFire.handle].name) =>
       lastFire.error /= "KeyError"

\* C11: after a firing of a repeating entry whose callback did not cancel it,
\* the entry is armed again with the same callback, also when the callback
\* raised.
C11_RepeatKeepsFiring ==
  (lastFire.valid /\ timers[lastFire.handle].repeat
     /\ timers[lastFire.handle].cb /= "cancel") =>
    LET name == timers[lastFire.handle].name
    IN /\ scheduled_events[name] /= 0
       /\ \E h \in DOMAIN timers :
            /\ timers[h].st = "pending"
            /\ timers[h].name = name
            /\ timers[h].repeat
            /\ timers[h].cb = timers[lastFire.handle].cb

(***************************************************************************)
(* Properties of the outbound path (SpecSend).                             *)
(***************************************************************************)
\* C12: the bytes of two outbound items never interleave on the wire: once
\* bytes of another item have followed an item's bytes, no byte of the first
\* item comes again.
C12_NoInterleaving ==
  \A i, j, k \in DOMAIN sock_out :
    (i < j /\ j < k /\ sock_out[i].id = sock_out[k].id) =>
      sock_out[j].id = sock_out[i].id

\* C13: a write that failed for good while the stream is not stopping leaves
\* the item as the retained one, has the stream disconnected for a
\* reconnection, and the retained item is what the worker takes first.
C13_FailedItemRetained ==
  /\ (lastFail.valid /\ ~stop) =>
       /\ failed_send_stanza = lastFail.item
       /\ disc_calls /= <<>>
       /\ disc_calls[Len(disc_calls)] = [reconnect |-> AutoReconnect, send_close |-> FALSE]
       /\ transport = "none"
  /\ (worker.pc = "sending" /\ worker.retained /= 0) => worker.data = worker.retained

\* C14: an item given up after a transient secure-channel error has failed
\* more than ssl_retry_max times, never more than ssl_retry_max retries are
\* made, and the giving up publishes socket_error and calls disconnect with
\* send_close=False.
C14_SslRetryBounded ==
  /\ worker.tries <= SSL_RETRY_MAX
  /\ (lastFail.valid /\ lastFail.exc = "SSLWant") =>
       /\ lastFail.fails > SSL_RETRY_MAX
       /\ socket_errors >= 1
       /\ disc_calls /= <<>>
       /\ ~disc_calls[Len(disc_calls)].send_close

(***************************************************************************)
(* Properties of the connection lifecycle (SpecConn, SpecTeardown).        *)
(***************************************************************************)
\* C15: the reconnect delay never exceeds reconnect_max_delay, the stream
\* header of the peer sets it to the floor 1, and after two failed attempts
\* in a row it is above the floor.
C15_BackoffGrows ==
  /\ reconnect_delay <= RECONNECT_MAX_DELAY
  /\ lastOp.op = "data_received" => reconnect_delay = 1
  /\ failures >= 2 => reconnect_delay > 1

\* C16: abort() ends without an error, with session_started cleared, stop
\* set, the state 'disconnected', one 'killed' event published by the call
\* and no connection attempt started.
C16_AbortCompletes ==
  lastOp.op = "abort" =>
    /\ lastOp.error = "none"
    /\ ~session_started
    /\ stop
    /\ conn_state = "disconnected"
    /\ killed = lastOp.killedBefore + 1
    /\ pending = lastOp.pendingBefore

\* C17: disconnect() leaves the stream disconnected with its transport
\* closed, has written the footer exactly when send_close was true, and has
\* started a connection attempt exactly when reconnect was true.
C17_DisconnectContract ==
  lastOp.op = "disconnect" =>
    /\ conn_state = "disconnected"
    /\ transport = "none"
    /\ lastOp.hadTransport =>
         (lastOp.send_close <=> (\E i \in DOMAIN wire_out : wire_out[i] = "stream_footer"))
    /\ lastOp.reconnect <=> (pending = lastOp.pendingBefore + 1)

HeadersWritten == SelectSeq(wire_out, LAMBDA d : d = "stream_header")

\* C20: every connection_made, the first one and the one that ends the
\* STARTTLS upgrade, leaves xml_depth 0, no root and a fresh parser; the
\* stream header is the first thing written on the transport and is written
\* once; start_tls and the connection_made after it leave dns_answers and the
\* address as they were.
C20_ConnectionMadeRestarts ==
  /\ [](/\ lastOp.op = "connection_made" =>
             /\ xml_depth = 0
             /\ xml_root = 0
             /\ parser = NewParser
             /\ wire_out = << "stream_header" >>
        /\ transport /= "none" =>
             /\ wire_out /= <<>>
             /\ wire_out[1] = "stream_header"
             /\ Len(HeadersWritten) = 1)
  /\ [][(lastOp'.op = "start_tls" \/ (lastOp'.op = "connection_made" /\ lastOp'.tls)) =>
          (dns_answers' = dns_answers /\ address' = address)]_vars

\* The upgrade has ended on a stream that had read the peer's header, with
\* DNS candidates left and an address given to connect.
C20_Witness ==
  /\ lastOp.op = "connection_made"
  /\ lastOp.tls
  /\ lastOp.depthBefore > 0
  /\ dns_answers.left /= <<>>
  /\ address = "h1"
  /\ transport = "tls"

(***************************************************************************)
(* Properties of the session timers (SpecSession).                         *)
(***************************************************************************)
IsTimeout(r) == r.kind = "timeout"

IsCertReaction(r) == r.kind = "reconnect" \/ r.kind = "ssl_expired_cert"

\* C18: a session timeout that finds session_started unset calls disconnect
\* with reconnect=auto_reconnect; once session_started was signalled no
\* session-timeout timer is left pending, and the timeout action never
\* happens on a connection whose session start was signalled.
C18_SessionTimeoutOnce ==
  /\ (lastFire.valid /\ timers[lastFire.handle].cb = "_handle_session_timeout"
        /\ ~session_started) =>
       /\ disc_calls /= <<>>
       /\ disc_calls[Len(disc_calls)] = [reconnect |-> AutoReconnect, send_close |-> TRUE]
  /\ session_started =>
       \A h \in DOMAIN timers :
          timers[h].name = "Session timeout check" => timers[h].st /= "pending"
  /\ \A i \in DOMAIN reactions : IsTimeout(reactions[i]) => ~reactions[i].signalled

\* C19: the expiry of the peer's certificate is reacted to once: at most one
\* reaction is made, and it is the reconnect exactly when nothing was
\* subscribed to 'ssl_expired_cert'.
C19_OneCertReaction ==
  /\ Len(SelectSeq(reactions, IsCertReaction)) <= 1
  /\ \A i \in DOMAIN reactions :
        IsCertReaction(reactions[i]) =>
          (reactions[i].kind = "reconnect" <=> reactions[i].handled = 0)

(***************************************************************************)
(* Properties of the connection state and of framing errors.               *)
(***************************************************************************)
\* C21: the connection state is 'connected' exactly while a transport is
\* established and 'disconnected' otherwise.
C21_StateTracksTransport ==
  /\ transport /= "none" => conn_state = "connected"
  /\ transport = "none" => conn_state = "disconnected"

\* C22: malformed bytes do not make data_received raise: the stream is torn
\* down by a disconnect with reconnect=auto_reconnect, and the parser takes
\* no further data of the connection.
C22_MalformedTearsDown ==
  lastOp.op = "data_received_malformed" =>
    /\ lastOp.error = "none"
    /\ disc_calls /= <<>>
    /\ disc_calls[Len(disc_calls)].reconnect = AutoReconnect
    /\ ~parser.live

(***************************************************************************)
(* Properties of _build_stanza (SpecStanzas).                              *)
(***************************************************************************)
\* The class c fits the element of the latest call: the local names are
\* equal and the element's namespace is the class's or the default one.
FitsElement(c) ==
  /\ lastBuild.el.ns /= ""
  /\ c.name = lastBuild.el.name
  /\ (c.namespace = lastBuild.el.ns \/ lastBuild.ns = lastBuild.el.ns)

\* The class c has the namespace and the local name of the element.
SameNameAndNamespace(c) ==
  c.name = lastBuild.el.name /\ c.namespace = lastBuild.el.ns

\* C23 as amended: _build_stanza returns the first registered class, in
\* registration order, whose local name is the element's and whose namespace
\* is the element's or whose element is in the default namespace in force,
\* and StanzaBase when no registered class fits.
C23_BuildStanzaFirstFit ==
  lastBuild.valid =>
    \/ /\ lastBuild.type = StanzaBase
       /\ \A i \in DOMAIN root_stanza : ~FitsElement(root_stanza[i])
    \/ \E i \in DOMAIN root_stanza :
          /\ root_stanza[i].cls = lastBuild.type
          /\ FitsElement(root_stanza[i])
          /\ \A j \in 1..(i - 1) : ~FitsElement(root_stanza[j])

\* With AppProceed registered before Proceed and the default namespace
\* "client", a {tls}proceed element passes over AppProceed and yields Proceed.
C23_Witness ==
  /\ lastBuild.valid
  /\ Len(root_stanza) >= 2
  /\ root_stanza[1].cls = "AppProceed"
  /\ root_stanza[2].cls = "Proceed"
  /\ lastBuild.el = [ns |-> "tls", name |-> "proceed"]
  /\ lastBuild.ns = "client"
  /\ lastBuild.type = "Proceed"

\* C23 as stated: the class returned is the first registered one whose
\* namespace and local name both equal those of the element, and StanzaBase
\* when there is none.
C23_BuildStanzaExactNamespace ==
  lastBuild.valid =>
    \/ /\ lastBuild.type = StanzaBase
       /\ \A i \in DOMAIN root_stanza : ~SameNameAndNamespace(root_stanza[i])
    \/ \E i \in DOMAIN root_stanza :
          /\ root_stanza[i].cls = lastBuild.type
          /\ SameNameAndNamespace(root_stanza[i])
          /\ \A j \in 1..(i - 1) : ~SameNameAndNamespace(root_stanza[j])

(***************************************************************************)
(* Properties of the outbound filters (SpecOut).                           *)
(***************************************************************************)
OutApplied == SelectSeq(lastSend.applied, LAMBDA a : a.mode = "out")

SyncApplied == SelectSeq(lastSend.applied, LAMBDA a : a.mode = "out_sync")

\* The filters of the entries in ap are the first Len(ap) filters of chain.
PrefixOfChain(ap, chain) ==
  /\ Len(ap) <= Len(chain)
  /\ \A i \in DOMAIN ap : ap[i].f = chain[i]

ChainAdded == IF lastAdd.mode = "out" THEN filters_out ELSE filters_sync

\* C25: add_filter with order=k puts the filter at position k of the chain
\* for every k from 0 to the length of the chain, add_filter without order
\* puts it at the end, and the other filters keep their order.
C25_AddFilterAtOrder ==
  lastAdd.valid =>
    /\ lastAdd.order = -1 => ChainAdded = Append(lastAdd.before, lastAdd.f)
    /\ lastAdd.order \in 0..Len(lastAdd.before) =>
         ChainAdded = SubSeq(lastAdd.before, 1, lastAdd.order) \o << lastAdd.f >>
                        \o SubSeq(lastAdd.before, lastAdd.order + 1, Len(lastAdd.before))

(***************************************************************************)
(* Properties of the whitespace keepalive (SpecSession).                   *)
(***************************************************************************)
\* C26: with whitespace_keepalive False no 'Whitespace Keepalive' timer is
\* ever made and no keepalive whitespace is written; with it True every
\* 'session_start' leaves one repeating entry under that name.
C26_KeepaliveFollowsFlag ==
  /\ ~whitespace_keepalive =>
       /\ \A h \in DOMAIN timers : timers[h].name /= "Whitespace Keepalive"
       /\ \A i \in DOMAIN wire_out : wire_out[i] /= " "
  /\ (whitespace_keepalive /\ lastOp.op = "session_start") =>
       /\ scheduled_events["Whitespace Keepalive"] /= 0
       /\ timers[scheduled_events["Whitespace Keepalive"]].repeat
       /\ timers[scheduled_events["Whitespace Keepalive"]].st = "pending"

(***************************************************************************)
(* Properties of in-stream handlers (SpecDispatch).                        *)
(***************************************************************************)
\* C27: in the dispatch of one stanza every matched handler marked instream
\* has run before any matched handler not so marked runs.
C27_InstreamFirst ==
  last.valid =>
    \A i, j \in DOMAIN last.runs :
       (i < j /\ HandlerPool[last.runs[j].h].instream) =>
         HandlerPool[last.runs[i].h].instream

(***************************************************************************)
(* Properties of the send worker's loop (SpecSend, SpecSendFair).          *)
(***************************************************************************)
\* C28: an item the worker took from the send queue was taken with
\* session_started set, and a worker that finds a retained failed item is
\* not held in the wait for session_started.
C28_GateOnlyNewItems ==
  /\ (worker.pc = "sending" /\ worker.retained = 0) => worker.gated
  /\ (worker.pc = "waiting" /\ failed_send_stanza /= 0 /\ ~stop) => session_started

\* C29: after fewer than ssl_retry_max transient secure-channel errors on an
\* item the worker still holds the item and goes on writing its remaining
\* bytes, the item is not in the retained-failure slot, and no more than the
\* item's bytes have been counted as written.
C29_TransientErrorsLoseNothing ==
  /\ worker.sent <= ItemLen
  /\ (lastFail.valid /\ lastFail.exc = "SSLWant" /\ lastFail.fails < SSL_RETRY_MAX) =>
       /\ failed_send_stanza /= lastFail.item
       /\ worker.pc = "sending"
       /\ worker.data = lastFail.item

\* C30: once stop is set, and for as long as it stays set, a started send
\* worker eventually ends, whatever the send queue holds and whether or not
\* session_started is set.
C30_StopEndsWorker ==
  [](stop => <>(~stop \/ worker.pc \in {"none", "ended"}))

(***************************************************************************)
(* Properties of the scheduler under stop, disconnection and cancelling    *)
(* (SpecSched, SpecSession).                                               *)
(***************************************************************************)
\* C31: a repeating entry that fires once stop is set is not armed again: no
\* timer of its name is pending after that firing.
C31_StopSkipsRearming ==
  (stop /\ lastFire.valid /\ timers[lastFire.handle].repeat) =>
    \A h \in DOMAIN timers :
       timers[h].name = timers[lastFire.handle].name => timers[h].st /= "pending"

\* The scheduler names tied to a session.
SessionTied == {"Whitespace Keepalive", "Certificate Expiration", "Session timeout check"}

\* C32: right after the 'disconnected' event none of the three session-tied
\* names has an entry or a pending timer.
C32_DisconnectedCancelsAll ==
  lastOp.op = "disconnected" =>
    \A n \in SessionTied :
       /\ scheduled_events[n] = 0
       /\ \A h \in DOMAIN timers : timers[h].name = n => timers[h].st /= "pending"

(***************************************************************************)
(* Properties of the DNS candidates and of reconnect (SpecConn,            *)
(* SpecTeardown).                                                          *)
(***************************************************************************)
\* C33: no call of pick_dns_answer fails: with candidates pending it takes
\* the first of them, and with none pending it asks the resolver again and
\* takes the first candidate of the new answer.
C33_PickRefills ==
  lastOp.op = "pick_dns_answer" =>
    /\ lastOp.error = "none"
    /\ \E k \in 1..Len(ResolvedAnswers) :
         dns_answers.left = SubSeq(ResolvedAnswers, k + 1, Len(ResolvedAnswers))

(***************************************************************************)
(* Properties of the order of deliveries (SpecEvent).                      *)
(***************************************************************************)
\* C34: the deliveries of one event name to one subscriber run in the order
\* of the event() calls: at a call of event() every subscriber that is not
\* threaded has run before the call returns, and a threaded subscriber
\* never runs for a later call while its run for an earlier call is still
\* to come.
C34_DeliveryOrder ==
  /\ (lastEvent.valid /\ ~lastEvent.direct /\ lastEvent.error = "none") =>
       lastEvent.invoked = SelectSeq(lastEvent.dispatched, LAMBDA sub : ~sub.threaded)
  /\ lastEvent.overtaken = 0

\* C35: a call of reconnect() leaves the address and use_ssl as the last
\* connect call set them.
C35_ReconnectKeepsSettings ==
  [][lastOp'.op = "reconnect" => (address' = address /\ use_ssl' = use_ssl)]_vars

(***************************************************************************)
(* Properties of cancelling and of the table of entries (SpecSched).       *)
(***************************************************************************)
\* C36: after a firing whose callback called cancel_schedule on its own
\* name, no timer armed for that name is pending (timers an earlier
\* schedule() call left behind are not counted), and the name has no entry.
C36_CancelStopsFiring ==
  (lastFire.valid /\ timers[lastFire.handle].cb = "cancel") =>
    LET name == timers[lastFire.handle].name
    IN /\ scheduled_events[name] = 0
       /\ \A h \in DOMAIN timers :
            (timers[h].name = name /\ ~timers[h].superseded) => timers[h].st /= "pending"

\* The pending timers of a name.
PendingOf(name) == {h \in DOMAIN timers : timers[h].name = name /\ timers[h].st = "pending"}

\* C37: a name has an entry exactly when one timer of that name is pending,
\* the entry is the handle of that timer, and no firing fails on removing
\* its own entry.
C37_EntriesMatchTimers ==
  /\ \A n \in SchedNames :
       IF scheduled_events[n] = 0 THEN PendingOf(n) = {}
       ELSE PendingOf(n) = {scheduled_events[n]}
  /\ lastFire.valid => lastFire.error /= "KeyError"

====
